---- MODULE Spec2Model ----
(***************************************************************************)
(* Input routing and focus core of the compositor: the seat state machine  *)
(* of src/src/ifs/wl_seat/handling.rs (WlSeatGlobal, NodeSeatState).       *)
(* Several seats observe one scene graph; every backend event, every       *)
(* tree-changed reconciliation and every destroy_node call is one action.  *)
(* The notifications an action sends to nodes and to protocol bindings are *)
(* recorded, in order, in the variable log, which holds the output of the  *)
(* most recent action only.                                                *)
(***************************************************************************)
EXTENDS Integers, Sequences, FiniteSets, TLC

VARIABLES
    pos,                     \* seat -> <<x, y>>, raw Fixed values (WlSeatGlobal.pos)
    cursor_pos,              \* seat -> <<x, y>>, integer position last given to the cursor
    pressed_keys,            \* seat -> set of key codes
    kb_mods,                 \* seat -> modifier snapshot held by the modifier service
    grabber,                 \* seat -> NoGrab or [node, buttons]
    pointer_stack,           \* seat -> sequence of nodes, root first
    keyboard_node,           \* seat -> node
    toplevel_focus_history,  \* seat -> sequence of toplevels, most recent last
    serial,                  \* seat -> next serial
    selection,               \* seat -> selection source or None
    primary_selection,       \* seat -> primary selection source or None
    pointer_foci,            \* node -> set of seats (NodeSeatState.pointer_foci)
    kb_foci,                 \* node -> set of seats (NodeSeatState.kb_foci)
    grabs,                   \* node -> set of seats (NodeSeatState.grabs)
    alive,                   \* the nodes that are in the tree
    tree_dirty,              \* seat -> a tree-changed signal is pending
    found_tree,              \* seat -> the scratch buffer of the hit test
    destroying,              \* None, or the node whose destroy_node is in its kb_foci loop
    cursor_node,             \* mod.rs: seat -> the node under the pointer
    move_,                   \* mod.rs: seat -> a toplevel is being moved
    move_start_pos,          \* mod.rs: seat -> the position when the move began
    extents_start_pos,       \* mod.rs: seat -> the moved toplevel's corner then
    extents,                 \* mod.rs: toplevel -> <<x, y>> of its corner, in cells
    log,                     \* notifications sent by the most recent action
    last                     \* the most recent action: [op, seat, node, a, b];
                             \* a, b are the code and state of a button or key

vars == <<pos, cursor_pos, pressed_keys, kb_mods, grabber, pointer_stack,
          keyboard_node, toplevel_focus_history, serial, selection,
          primary_selection, pointer_foci, kb_foci, grabs, alive, tree_dirty,
          found_tree, destroying, cursor_node, move_, move_start_pos,
          extents_start_pos, extents, log, last>>

\* the fields of the seat of mod.rs that handling.rs does not have
ModVars == <<cursor_node, move_, move_start_pos, extents_start_pos, extents>>

-----------------------------------------------------------------------------
(* Bounds of the model *)

MaxSerial == 8
MaxSeatsSerial == 4
MaxEventsSerial == 7

-----------------------------------------------------------------------------
(* The scene: seats, nodes, clients *)

None == "none"
NoGrab == [node |-> None, buttons |-> {}]

Seats == {"s1", "s2"}
Root == "root"
Toplevels == {"T1", "T2", "T3"}
Surfaces == {"A1", "B1", "A2", "A3", "L"}
Nodes == {Root} \cup Toplevels \cup Surfaces

Kind(n) ==
    IF n = Root THEN "root" ELSE IF n \in Toplevels THEN "toplevel" ELSE "surface"

Parent(n) ==
    CASE n = "A1" -> "T1"
      [] n = "B1" -> "T1"
      [] n = "A2" -> "T2"
      [] n = "A3" -> "T3"
      [] OTHER -> Root

\* integer x cells a node covers, and its absolute origin; the third toplevel
\* is mapped but covers no cell the pointer can reach
Cells(n) ==
    CASE n = "T1" -> 0..2
      [] n = "A1" -> {0}
      [] n = "B1" -> {1}
      [] n = "T2" -> {3}
      [] n = "A2" -> {3}
      [] n = "T3" -> {}
      [] n = "A3" -> {}
      [] n = "L" -> {4}
      [] OTHER -> -1..4

OriginX(n) ==
    CASE n = "B1" -> 1
      [] n = "T2" -> 3
      [] n = "A2" -> 3
      [] n = "L" -> 4
      [] OTHER -> 0

OriginY(n) == IF n = "L" THEN -1 ELSE 0

ClientOf(n) ==
    CASE n \in {"T1", "A1", "B1"} -> "K1"
      [] n \in {"T2", "A2", "T3", "A3", "L"} -> "K2"
      [] OTHER -> None

XdgSurfaceOf(t) ==
    CASE t = "T1" -> "A1"
      [] t = "T2" -> "A2"
      [] OTHER -> "A3"

\* XdgToplevel::parent_is_float: the second toplevel floats
parent_is_float(t) == t = "T2"

BelongsToToplevel(n) == Parent(n) \in Toplevels

-----------------------------------------------------------------------------
(* Fixed-point coordinates: raw value = integer part * FixedOne + fraction *)

FixedOne == 256

from_int(i) == i * FixedOne
round_down(f) == f \div FixedOne
apply_fract(f, i) == i * FixedOne + (f % FixedOne)

-----------------------------------------------------------------------------
(* Protocol and service values *)

WL_RELEASED == 0
WL_PRESSED == 1
XKB_KEY_UP == 0
XKB_KEY_DOWN == 1

KeyStates == {"Pressed", "Released"}
Keys == {30, 42}
ModKeys == {42}
Buttons == {272, 273}

\* a set of key codes as one number, for the log
KeyMask(S) == (IF 30 \in S THEN 1 ELSE 0) + (IF 42 \in S THEN 2 ELSE 0)

\* XkbState::update: the depressed-modifier mask after the key transition
XkbUpdate(mods, key, dir) ==
    IF key \in ModKeys
    THEN (IF dir = XKB_KEY_DOWN THEN 1 ELSE 0)
    ELSE mods

\* Option<ModifierState>::None
NoMods == -1

-----------------------------------------------------------------------------
(* The state as one record, so that handlers compose as functions *)

St ==
    [pos |-> pos, cursor_pos |-> cursor_pos, pressed_keys |-> pressed_keys,
     kb_mods |-> kb_mods, grabber |-> grabber, pointer_stack |-> pointer_stack,
     keyboard_node |-> keyboard_node,
     toplevel_focus_history |-> toplevel_focus_history, serial |-> serial,
     selection |-> selection, primary_selection |-> primary_selection,
     pointer_foci |-> pointer_foci, kb_foci |-> kb_foci, grabs |-> grabs,
     alive |-> alive, tree_dirty |-> tree_dirty, found_tree |-> found_tree,
     destroying |-> destroying,
     log |-> <<>>, flush_fails |-> {}]

CommitSeat(W, op, s, n, a, b) ==
    /\ last' = [op |-> op, seat |-> s, node |-> n, a |-> a, b |-> b]
    /\ pos' = W.pos
    /\ cursor_pos' = W.cursor_pos
    /\ pressed_keys' = W.pressed_keys
    /\ kb_mods' = W.kb_mods
    /\ grabber' = W.grabber
    /\ pointer_stack' = W.pointer_stack
    /\ keyboard_node' = W.keyboard_node
    /\ toplevel_focus_history' = W.toplevel_focus_history
    /\ serial' = W.serial
    /\ selection' = W.selection
    /\ primary_selection' = W.primary_selection
    /\ pointer_foci' = W.pointer_foci
    /\ kb_foci' = W.kb_foci
    /\ grabs' = W.grabs
    /\ alive' = W.alive
    /\ tree_dirty' = W.tree_dirty
    /\ found_tree' = W.found_tree
    /\ destroying' = W.destroying
    /\ log' = W.log

Commit(W, op, s, n, a, b) ==
    /\ CommitSeat(W, op, s, n, a, b)
    /\ UNCHANGED ModVars

\* one notification: <<operation, seat, node, a, b, c>>
Emit(W, op, s, n, a, b, c) ==
    [W EXCEPT !.log = Append(@, <<op, s, n, a, b, c>>)]

\* the counter read and left as it is
NextSerialKept(W, s) == W

\* NumCell::fetch_add(1) on the seat's serial
NextSerial(W, s) == [W EXCEPT !.serial[s] = @ + 1]

-----------------------------------------------------------------------------
(* Delivery to the protocol bindings of a surface's client.  Every send is  *)
(* followed by a flush of that client, whose result the seat never reads.  *)

SendBool(b) == IF b THEN 1 ELSE 0

\* the flushes of the handler so far
Flushes(W) == Len(SelectSeq(W.log, LAMBDA e : e[1] = "flush"))

\* the outcome of the next flush: W.flush_fails numbers the flushes that fail
FlushOk(W) == (Flushes(W) + 1) \notin W.flush_fails

\* a flush whose failure is acted on: the keyboard focus is given up
Client_flush_Rollback(W, s, n) ==
    LET W1 == Emit(W, "flush", s, n, SendBool(FlushOk(W)), 0, 0)
    IN IF FlushOk(W) THEN W1 ELSE [W1 EXCEPT !.keyboard_node[s] = Root]

\* client.flush() at the end of surface_pointer_event and its siblings
Client_flush(W, s, n) == Emit(W, "flush", s, n, SendBool(FlushOk(W)), 0, 0)

\* one surface_*_event: the message to the client's bindings, then the flush
Send(W, op, s, n, a, b, c) == Client_flush(Emit(W, op, s, n, a, b, c), s, n)

surface_pointer_frame(W, s, surface) ==
    Send(W, "send_frame", s, surface, 0, 0, 0)

motion_surface(W, s, n, x, y) ==
    surface_pointer_frame(Send(W, "send_motion", s, n, 0, x, y), s, n)

enter_surface(W, s, n, x, y) ==
    LET W1 == Send(W, "send_enter", s, n, W.serial[s], x, y)
    IN surface_pointer_frame(NextSerial(W1, s), s, n)

leave_surface(W, s, n) ==
    LET W1 == Send(W, "send_leave", s, n, W.serial[s], 0, 0)
    IN surface_pointer_frame(NextSerial(W1, s), s, n)

\* wl_pointer::HORIZONTAL_SCROLL and VERTICAL_SCROLL
AxisCode(axis) == IF axis = "Horizontal" THEN 1 ELSE 0

scroll_surface(W, s, n, delta, axis) ==
    surface_pointer_frame(
        Send(W, "send_axis", s, n, 0, AxisCode(axis), from_int(delta)), s, n)

unfocus_surface(W, s, n) == Send(W, "send_kb_leave", s, n, 0, 0, 0)

\* the modifiers sent after every key, without the test of line 562
key_surface_AlwaysMods(W, s, n, key, state, mods) ==
    LET W1 == NextSerial(Send(W, "send_key", s, n, W.serial[s], key, state), s)
        W2 == NextSerial(W1, s)
    IN Send(W2, "send_modifiers", s, n, W1.serial[s], mods, 0)

key_surface(W, s, n, key, state, mods) ==
    LET W1 == NextSerial(Send(W, "send_key", s, n, W.serial[s], key, state), s)
        W2 == NextSerial(W1, s)
    IN IF mods # NoMods
       THEN Send(W2, "send_modifiers", s, n, W1.serial[s], mods, 0)
       ELSE W2

-----------------------------------------------------------------------------
(* NodeSeatState: the per-node ledger *)

NodeSeatState_enter(W, s, n) == [W EXCEPT !.pointer_foci[n] = @ \cup {s}]

NodeSeatState_leave(W, s, n) == [W EXCEPT !.pointer_foci[n] = @ \ {s}]

NodeSeatState_focus(W, s, n) == [W EXCEPT !.kb_foci[n] = @ \cup {s}]

\* focus() answering "first" whenever the map is not empty
FocusIsFirstAny(W, n) == Cardinality(W.kb_foci[n]) >= 1

\* the value focus() returns, read after the insertion
FocusIsFirst(W, n) == Cardinality(W.kb_foci[n]) = 1

\* the seat left in the node's kb_foci
NodeSeatState_unfocus_Skip(W, s, n) == W

NodeSeatState_unfocus(W, s, n) == [W EXCEPT !.kb_foci[n] = @ \ {s}]

\* the value unfocus() returns, read after the removal
\* the edge of line 45 never reported
UnfocusIsLastNever(W, n) == FALSE

UnfocusIsLast(W, n) == Cardinality(W.kb_foci[n]) = 0

\* dropping a PointerGrab resets the grab field of the seat it names
PointerGrab_drop(W, s) == [W EXCEPT !.grabber[s] = NoGrab]

\* the grab not entered into the ledger
NodeSeatState_add_pointer_grab_Skip(W, s, n) ==
    Emit(W, "add_pointer_grab", s, n, 0, 0, 0)

NodeSeatState_add_pointer_grab(W, s, n) ==
    Emit([W EXCEPT !.grabs[n] = @ \cup {s}], "add_pointer_grab", s, n, 0, 0, 0)

\* every seat's entry removed from the node's grabs, not the one seat's
NodeSeatState_remove_pointer_grab_All(W, s, n) ==
    LET W1 == Emit(W, "remove_pointer_grab", s, n, 0, 0, 0)
    IN [W1 EXCEPT !.grabs[n] = {},
                  !.grabber = [o \in Seats |->
                                  IF o \in W.grabs[n] THEN NoGrab ELSE W.grabber[o]]]

NodeSeatState_remove_pointer_grab(W, s, n) ==
    LET W1 == Emit(W, "remove_pointer_grab", s, n, 0, 0, 0)
    IN IF s \in W.grabs[n]
       THEN PointerGrab_drop([W1 EXCEPT !.grabs[n] = @ \ {s}], s)
       ELSE W1

-----------------------------------------------------------------------------
(* Keyboard focus *)

\* Node::unfocus, Node::focus, Node::active_changed as the node kinds implement them
Node_unfocus(W, s, n) ==
    LET W1 == Emit(W, "unfocus", s, n, 0, 0, 0)
    IN IF Kind(n) = "surface" THEN unfocus_surface(W1, s, n) ELSE W1

Node_focus(W, s, n) == Emit(W, "focus", s, n, 0, 0, 0)

Node_active_changed(W, s, n, active) ==
    Emit(W, "active_changed", s, n, SendBool(active), 0, 0)

\* the renegotiation that ignores the seat's sources
FocusSelectionNoSource(W, s, old, surface) ==
    IF ClientOf(old) = ClientOf(surface)
    THEN W
    ELSE Send(Send(W, "send_selection_none", s, surface, 0, 0, 0),
              "send_primary_selection_none", s, surface, 0, 0, 0)

\* lines 245-266: clipboard renegotiation when the client changes
FocusSelection(W, s, old, surface) ==
    IF ClientOf(old) = ClientOf(surface)
    THEN W
    ELSE LET W1 == IF W.selection[s] = None
                   THEN Send(W, "send_selection_none", s, surface, 0, 0, 0)
                   ELSE Emit(W, "create_offer", s, surface, 0, 0, 0)
         IN IF W1.primary_selection[s] = None
            THEN Send(W1, "send_primary_selection_none", s, surface, 0, 0, 0)
            ELSE Emit(W1, "create_primary_offer", s, surface, 0, 0, 0)

\* focus_surface without the test of lines 215-217
focus_surface_Always(W, s, surface) ==
    LET old == W.keyboard_node[s]
        W1 == Node_unfocus(W, s, old)
        W2 == NodeSeatState_unfocus(W1, s, old)
        W3 == Node_active_changed(W2, s, old, FALSE)
        W4 == NodeSeatState_focus(W3, s, surface)
        W5 == Node_focus(Node_active_changed(W4, s, surface, TRUE), s, surface)
        W6 == [W5 EXCEPT !.keyboard_node[s] = surface]
    IN NextSerial(NextSerial(W6, s), s)

\* the keyboard enter sent without the pressed keys
PressedKeysNone(W, s) == KeyMask({})

\* line 229: the pressed keys collected for the keyboard enter
PressedKeysSnapshot(W, s) == KeyMask(W.pressed_keys[s])

focus_surface(W, s, surface) ==
    LET old == W.keyboard_node[s]
        W1 == Node_unfocus(W, s, old)
        W2 == NodeSeatState_unfocus(W1, s, old)
        W3 == IF UnfocusIsLast(W2, old)
              THEN Node_active_changed(W2, s, old, FALSE) ELSE W2
        W4 == NodeSeatState_focus(W3, s, surface)
        W5 == IF FocusIsFirst(W4, surface)
              THEN Node_active_changed(W4, s, surface, TRUE) ELSE W4
        W6 == Node_focus(W5, s, surface)
        W7 == [W6 EXCEPT !.keyboard_node[s] = surface]
        W8 == NextSerial(
                  Send(W7, "send_kb_enter", s, surface, W7.serial[s],
                       PressedKeysSnapshot(W7, s), 0), s)
        W9 == NextSerial(
                  Send(W8, "send_modifiers", s, surface, W8.serial[s],
                       W8.kb_mods[s], 0), s)
    IN IF old = surface THEN W ELSE FocusSelection(W9, s, old, surface)

focus_xdg_surface(W, s, tl) == focus_surface(W, s, XdgSurfaceOf(tl))

\* LinkedList::add_last, and the toplevel's handle for this seat replaced:
\* the old handle is dropped, which unlinks the entry it held
HistoryAddLast(h, tl) == Append(SelectSeq(h, LAMBDA e : e # tl), tl)

focus_toplevel(W, s, tl) ==
    focus_xdg_surface(
        [W EXCEPT !.toplevel_focus_history[s] = HistoryAddLast(@, tl)], s, tl)

\* the scan from the oldest entry
RECURSIVE FirstTiled(_, _)
FirstTiled(h, i) ==
    IF i > Len(h) THEN None
    ELSE IF ~parent_is_float(h[i]) THEN h[i]
    ELSE FirstTiled(h, i + 1)

\* lines 188-193: rev_iter, the first entry whose parent is not floating
RECURSIVE LastTiled(_, _)
LastTiled(h, i) ==
    IF i = 0 THEN None
    ELSE IF ~parent_is_float(h[i]) THEN h[i]
    ELSE LastTiled(h, i - 1)

\* the history read from its oldest end
last_tiled_keyboard_toplevel_Oldest(W, s) ==
    FirstTiled(W.toplevel_focus_history[s], 1)

last_tiled_keyboard_toplevel(W, s) ==
    LastTiled(W.toplevel_focus_history[s], Len(W.toplevel_focus_history[s]))

-----------------------------------------------------------------------------
(* The Node capability interface, as the node kinds forward it to the seat *)

StateCode(state) == IF state = "Pressed" THEN WL_PRESSED ELSE WL_RELEASED

\* the focus taken by a press on any surface, without the test of line 492
button_surface_FocusAny(W, s, surface, button, state) ==
    LET W1 == NextSerial(
                  Send(W, "send_button", s, surface, W.serial[s], button,
                       StateCode(state)), s)
        W2 == surface_pointer_frame(W1, s, surface)
    IN IF state = "Pressed" THEN focus_surface(W2, s, surface) ELSE W2

button_surface(W, s, surface, button, state) ==
    LET W1 == NextSerial(
                  Send(W, "send_button", s, surface, W.serial[s], button,
                       StateCode(state)), s)
        W2 == surface_pointer_frame(W1, s, surface)
    IN IF state = "Pressed" /\ BelongsToToplevel(surface)
       THEN focus_surface(W2, s, surface)
       ELSE W2

enter_toplevel(W, s, tl) == focus_toplevel(W, s, tl)

Node_button(W, s, n, button, state) ==
    LET W1 == Emit(W, "button", s, n, button, StateCode(state), 0)
    IN IF Kind(n) = "surface" THEN button_surface(W1, s, n, button, state) ELSE W1

Node_scroll(W, s, n, delta, axis) ==
    LET W1 == Emit(W, "scroll", s, n, delta, AxisCode(axis), 0)
    IN IF Kind(n) = "surface" THEN scroll_surface(W1, s, n, delta, axis) ELSE W1

Node_key(W, s, n, key, state, mods) ==
    LET W1 == Emit(W, "key", s, n, key, state, mods)
    IN IF Kind(n) = "surface" THEN key_surface(W1, s, n, key, state, mods) ELSE W1

Node_motion(W, s, n, x, y) ==
    LET W1 == Emit(W, "motion", s, n, 0, x, y)
    IN IF Kind(n) = "surface" THEN motion_surface(W1, s, n, x, y) ELSE W1

Node_enter(W, s, n, x, y) ==
    LET W1 == Emit(W, "enter", s, n, 0, x, y)
    IN CASE Kind(n) = "surface" -> enter_surface(W1, s, n, x, y)
         [] Kind(n) = "toplevel" -> enter_toplevel(W1, s, n)
         [] OTHER -> W1

Node_leave(W, s, n) ==
    LET W1 == Emit(W, "leave", s, n, 0, 0, 0)
    IN IF Kind(n) = "surface" THEN leave_surface(W1, s, n) ELSE W1

Node_pointer_target(W, s, n) == Emit(W, "pointer_target", s, n, 0, 0, 0)

Node_pointer_untarget(W, s, n) == Emit(W, "pointer_untarget", s, n, 0, 0, 0)

-----------------------------------------------------------------------------
(* Hit testing: the path from the root to the deepest node under a point *)

ChildrenAt(al, n, xi) ==
    {c \in al \ {Root} : Parent(c) = n /\ xi \in Cells(c)}

RECURSIVE HitFrom(_, _, _)
HitFrom(al, n, xi) ==
    LET cs == ChildrenAt(al, n, xi)
    IN IF cs = {} THEN <<n>> ELSE <<n>> \o HitFrom(al, CHOOSE c \in cs : TRUE, xi)

\* the found_tree buffer after the root is pushed and find_tree_at has run:
\* each node with the point in its local coordinates
FoundTree(al, xi, yi) ==
    LET path == HitFrom(al, Root, xi)
    IN [i \in 1..Len(path) |->
           [node |-> path[i], x |-> xi - OriginX(path[i]),
            y |-> yi - OriginY(path[i])]]

Min(a, b) == IF a < b THEN a ELSE b

\* the loop of lines 438-443 without its break: the last differing position wins
DivergenceNoBreak(found, stack) ==
    LET m == Min(Len(found), Len(stack))
        diff == {i \in 1..m : found[i].node # stack[i]}
    IN IF diff = {} THEN m
       ELSE (CHOOSE i \in diff : \A j \in diff : i >= j) - 1

\* lines 437-443: the number of leading positions at which the two paths agree
Divergence(found, stack) ==
    LET m == Min(Len(found), Len(stack))
        diff == {i \in 1..m : found[i].node # stack[i]}
    IN IF diff = {} THEN m
       ELSE (CHOOSE i \in diff : \A j \in diff : i <= j) - 1

-----------------------------------------------------------------------------
(* Position updates and reconciliation *)

\* the grab target given the position without the translation of line 409
GrabMotionAbsolute(W, s, pos_changed) ==
    LET n == W.grabber[s].node
        x == W.pos[s][1]
        y == W.pos[s][2]
    IN IF pos_changed
       THEN Node_motion(W, s, n, apply_fract(x, round_down(x)),
                        apply_fract(y, round_down(y)))
       ELSE W

\* lines 399-413: a grab is active; motion goes to the grab target only
GrabMotion(W, s, pos_changed) ==
    LET n == W.grabber[s].node
        x == W.pos[s][1]
        y == W.pos[s][2]
        x_int == round_down(x) - OriginX(n)
        y_int == round_down(y) - OriginY(n)
    IN IF pos_changed
       THEN Node_motion(W, s, n, apply_fract(x, x_int), apply_fract(y, y_int))
       ELSE W

\* motion to the first node of the hit path, the root
MotionToRoot(W, s, found) ==
    LET node == found[1]
    IN IF Len(found) = 0 THEN W
       ELSE Node_motion(W, s, node.node, apply_fract(W.pos[s][1], node.x),
                        apply_fract(W.pos[s][2], node.y))

\* motion to the last node of the hit path
MotionToLeaf(W, s, found) ==
    LET node == found[Len(found)]
    IN IF Len(found) = 0 THEN W
       ELSE Node_motion(W, s, node.node, apply_fract(W.pos[s][1], node.x),
                        apply_fract(W.pos[s][2], node.y))

\* lines 455-458: leave the drained nodes stack[d+1..i], top first
RECURSIVE LeaveOld(_, _, _, _, _)
LeaveOld(W, s, stack, i, d) ==
    IF i <= d THEN W
    ELSE LeaveOld(NodeSeatState_leave(Node_leave(W, s, stack[i]), s, stack[i]),
                  s, stack, i - 1, d)

\* lines 466-472: enter and push found[i..], in path order
RECURSIVE EnterNew(_, _, _, _)
EnterNew(W, s, found, i) ==
    IF i > Len(found) THEN W
    ELSE LET new == found[i]
             W1 == NodeSeatState_enter(W, s, new.node)
             W2 == Node_enter(W1, s, new.node, apply_fract(W.pos[s][1], new.x),
                              apply_fract(W.pos[s][2], new.y))
             W3 == [W2 EXCEPT !.pointer_stack[s] = Append(@, new.node)]
         IN EnterNew(W3, s, found, i + 1)

\* line 466: found_tree.drain(divergence..) has taken the new nodes out of the
\* buffer when the loop over them ends
DrainFound(W, s, found, d) == [W EXCEPT !.found_tree[s] = SubSeq(found, 1, d)]

\* the prefix branch without its motion: the test of line 459 left out
AfterLeaveEnterOnly(W, s, found, d) ==
    DrainFound(EnterNew(W, s, found, d + 1), s, found, d)

\* lines 459-473: motion only if the hit path ends inside the old stack,
\* else enter what is new
AfterLeave(W, s, found, d) ==
    IF Len(found) = d
    THEN MotionToLeaf(W, s, found)
    ELSE DrainFound(EnterNew(W, s, found, d + 1), s, found, d)

\* the buffer left as the reconciliation filled it
FoundTreeKept(W, s) == W

\* line 478: found_tree.clear()
FoundTreeClear(W, s) == [W EXCEPT !.found_tree[s] = <<>>]

\* lines 429-436: the root and the nodes of the hit test pushed into the buffer
FoundTreePush(W, s) ==
    [W EXCEPT !.found_tree[s] =
        @ \o FoundTree(W.alive, round_down(W.pos[s][1]), round_down(W.pos[s][2]))]

\* lines 437-478: no grab; compare the hit path, now in the seat's buffer, with
\* the pointer-focus stack
Reconcile(W, s, pos_changed) ==
    LET found == W.found_tree[s]
        stack == W.pointer_stack[s]
        d == Divergence(found, stack)
        W1 == IF Len(stack) > 0
              THEN Node_pointer_untarget(W, s, stack[Len(stack)]) ELSE W
        W2 == [W1 EXCEPT !.pointer_stack[s] = SubSeq(stack, 1, d)]
        W3 == LeaveOld(W2, s, stack, Len(stack), d)
        W4 == AfterLeave(W3, s, found, d)
        st4 == W4.pointer_stack[s]
    IN FoundTreeClear(
           IF Len(stack) = d /\ Len(found) = d
           THEN (IF pos_changed THEN MotionToLeaf(W, s, found) ELSE W)
           ELSE (IF Len(st4) > 0
                 THEN Node_pointer_target(W4, s, st4[Len(st4)]) ELSE W4), s)

\* the handler without the grab block of lines 399-413
handle_new_position_NoGrab(W, s, pos_changed) ==
    LET x == W.pos[s][1]
        y == W.pos[s][2]
        W1 == IF pos_changed
              THEN [W EXCEPT !.cursor_pos[s] = <<round_down(x), round_down(y)>>]
              ELSE W
    IN Reconcile(FoundTreePush(W1, s), s, pos_changed)

handle_new_position(W, s, pos_changed) ==
    LET x == W.pos[s][1]
        y == W.pos[s][2]
        W1 == IF pos_changed
              THEN [W EXCEPT !.cursor_pos[s] = <<round_down(x), round_down(y)>>]
              ELSE W
    IN IF W1.grabber[s] # NoGrab
       THEN GrabMotion(W1, s, pos_changed)
       ELSE Reconcile(FoundTreePush(W1, s), s, pos_changed)

\* the position kept as it is while a grab is active
set_new_position_Ungrabbed(W, s, x, y) ==
    IF W.grabber[s] # NoGrab
    THEN handle_new_position(W, s, TRUE)
    ELSE handle_new_position([W EXCEPT !.pos[s] = <<x, y>>], s, TRUE)

set_new_position(W, s, x, y) ==
    handle_new_position([W EXCEPT !.pos[s] = <<x, y>>], s, TRUE)

\* the reconciliation made as if the position had changed
tree_changed_Moved(W, s) == handle_new_position(W, s, TRUE)

tree_changed(W, s) == handle_new_position(W, s, FALSE)

\* State.outputs: the known outputs and their origins
Outputs == {"o1"}
OutputX(o) == 1
OutputY(o) == 0

output_position_event(W, s, o, x, y) ==
    IF o \notin Outputs THEN W
    ELSE set_new_position(W, s, x + from_int(OutputX(o)), y + from_int(OutputY(o)))

motion_event(W, s, dx, dy) ==
    set_new_position(W, s, W.pos[s][1] + dx, W.pos[s][2] + dy)

-----------------------------------------------------------------------------
(* Button, scroll and key events *)

\* pointer_node: the deepest node of the pointer-focus stack
pointer_node(W, s) ==
    IF Len(W.pointer_stack[s]) = 0 THEN None
    ELSE W.pointer_stack[s][Len(W.pointer_stack[s])]

\* the two statements of lines 141-144 in the other order
ButtonDeliverFirst(W, s, node, button, state, release_grab) ==
    LET W1 == Node_button(W, s, node, button, state)
    IN IF release_grab THEN NodeSeatState_remove_pointer_grab(W1, s, node) ELSE W1

\* lines 140-144: drop the grab if the release emptied it, then notify the node
ButtonDeliver(W, s, node, button, state, release_grab) ==
    LET W1 == IF release_grab
              THEN NodeSeatState_remove_pointer_grab(W, s, node) ELSE W
    IN Node_button(W1, s, node, button, state)

\* the grab released on every release, without the test of line 118
ButtonInGrabAnyRelease(W, s, button, state) ==
    LET pg == W.grabber[s]
        buttons == IF state = "Released"
                   THEN pg.buttons \ {button} ELSE pg.buttons \cup {button}
        W1 == [W EXCEPT !.grabber[s].buttons = buttons]
    IN ButtonDeliver(W1, s, pg.node, button, state, state = "Released")

\* the event delivered to the leaf of the pointer-focus stack, not to pg.node
ButtonInGrabToLeaf(W, s, button, state) ==
    LET pg == W.grabber[s]
        buttons == IF state = "Released"
                   THEN pg.buttons \ {button} ELSE pg.buttons \cup {button}
        release_grab == state = "Released" /\ buttons = {}
        W1 == [W EXCEPT !.grabber[s].buttons = buttons]
        n == IF pointer_node(W, s) = None THEN pg.node ELSE pointer_node(W, s)
    IN IF release_grab
       THEN ButtonDeliver(W1, s, pg.node, button, state, release_grab)
       ELSE ButtonDeliver(W1, s, n, button, state, release_grab)

\* lines 115-124: a grab is active
ButtonInGrab(W, s, button, state) ==
    LET pg == W.grabber[s]
        buttons == IF state = "Released"
                   THEN pg.buttons \ {button} ELSE pg.buttons \cup {button}
        release_grab == state = "Released" /\ buttons = {}
        W1 == [W EXCEPT !.grabber[s].buttons = buttons]
    IN ButtonDeliver(W1, s, pg.node, button, state, release_grab)

\* a release without a grab passed on to the pointer node
ButtonNoGrabReleaseToo(W, s, button, state) ==
    LET n == pointer_node(W, s)
        W1 == [W EXCEPT !.grabber[s] = [node |-> n, buttons |-> {button}]]
        W2 == NodeSeatState_add_pointer_grab(W1, s, n)
    IN IF n = None THEN W
       ELSE IF state = "Pressed"
       THEN ButtonDeliver(W2, s, n, button, state, FALSE)
       ELSE ButtonDeliver(W, s, n, button, state, FALSE)

\* lines 125-139: no grab; a press on the pointer node starts one
ButtonNoGrab(W, s, button, state) ==
    LET n == pointer_node(W, s)
        W1 == [W EXCEPT !.grabber[s] = [node |-> n, buttons |-> {button}]]
        W2 == NodeSeatState_add_pointer_grab(W1, s, n)
    IN IF state = "Pressed" /\ n # None
       THEN ButtonDeliver(W2, s, n, button, state, FALSE)
       ELSE W

button_event(W, s, button, state) ==
    IF W.grabber[s] # NoGrab
    THEN ButtonInGrab(W, s, button, state)
    ELSE ButtonNoGrab(W, s, button, state)

\* the event routed by the pointer-focus stack alone
scroll_event_ToLeaf(W, s, delta, axis) ==
    IF pointer_node(W, s) = None THEN W
    ELSE Node_scroll(W, s, pointer_node(W, s), delta, axis)

scroll_event(W, s, delta, axis) ==
    LET node == IF W.grabber[s] # NoGrab
                THEN W.grabber[s].node ELSE pointer_node(W, s)
    IN IF node = None THEN W ELSE Node_scroll(W, s, node, delta, axis)

\* no de-duplication: every key event is accepted
KeyAcceptedAlways(pk, key, state) == TRUE

\* lines 159-175: de-duplication against the pressed-key set
KeyAccepted(pk, key, state) ==
    IF state = "Released" THEN key \in pk ELSE key \notin pk

\* lines 176-178: the modifier service, then the keyboard-focus node
KeyDeliver(W, s, key, state) ==
    LET dir == IF state = "Released" THEN XKB_KEY_UP ELSE XKB_KEY_DOWN
        old == W.kb_mods[s]
        new == XkbUpdate(old, key, dir)
        mods == IF new = old THEN NoMods ELSE new
        W1 == Emit([W EXCEPT !.kb_mods[s] = new], "xkb_update", s, None, key, dir, 0)
    IN Node_key(W1, s, W1.keyboard_node[s], key, StateCode(state), mods)

\* a release delivered with the code left in the pressed-key set
key_event_ReleaseKept(W, s, key, state) ==
    LET pk == W.pressed_keys[s]
    IN IF KeyAccepted(pk, key, state)
       THEN KeyDeliver([W EXCEPT !.pressed_keys[s] = pk \cup {key}], s, key, state)
       ELSE W

key_event(W, s, key, state) ==
    LET pk == W.pressed_keys[s]
        pk2 == IF state = "Released" THEN pk \ {key} ELSE pk \cup {key}
    IN IF KeyAccepted(pk, key, state)
       THEN KeyDeliver([W EXCEPT !.pressed_keys[s] = pk2], s, key, state)
       ELSE W

-----------------------------------------------------------------------------
(* destroy_node *)

\* the pop loop stopping above the node: the test made before the pop
RECURSIVE PopAbove(_, _)
PopAbove(ps, n) ==
    IF Len(ps) = 0 THEN ps
    ELSE IF ps[Len(ps)] = n THEN ps
    ELSE PopAbove(SubSeq(ps, 1, Len(ps) - 1), n)

\* lines 69-74: pop the stack from the top until the node has been popped
RECURSIVE PopThrough(_, _)
PopThrough(ps, n) ==
    IF Len(ps) = 0 THEN ps
    ELSE IF ps[Len(ps)] = n THEN SubSeq(ps, 1, Len(ps) - 1)
    ELSE PopThrough(SubSeq(ps, 1, Len(ps) - 1), n)

\* State::tree_changed: the seat is told to reconcile its pointer focus later
SignalTreeChanged(W, s) ==
    Emit([W EXCEPT !.tree_dirty[s] = TRUE], "tree_changed", s, None, 0, 0, 0)

\* line 66: grabs.clear() drops every PointerGrab of the node
RECURSIVE ClearGrabs(_, _)
ClearGrabs(W, n) ==
    IF W.grabs[n] = {} THEN W
    ELSE LET s == CHOOSE s \in W.grabs[n] : TRUE
         IN ClearGrabs(PointerGrab_drop([W EXCEPT !.grabs[n] = @ \ {s}], s), n)

\* lines 68-76: one iteration per seat with pointer focus on the node
RECURSIVE ClearPointerFoci(_, _)
ClearPointerFoci(W, n) ==
    IF W.pointer_foci[n] = {} THEN W
    ELSE LET s == CHOOSE s \in W.pointer_foci[n] : TRUE
             W1 == [W EXCEPT !.pointer_foci[n] = @ \ {s},
                             !.pointer_stack[s] = PopThrough(@, n)]
         IN ClearPointerFoci(SignalTreeChanged(W1, s), n)

\* the iteration without the refocus of lines 79-81
DestroyKbIterationRootOnly(W, s, n) ==
    [W EXCEPT !.kb_foci[n] = @ \ {s}, !.keyboard_node[s] = Root]

\* lines 77-82: one iteration of the loop over the seats with keyboard focus
DestroyKbIteration(W, s, n) ==
    LET W1 == [W EXCEPT !.kb_foci[n] = @ \ {s}, !.keyboard_node[s] = Root]
        h == W1.toplevel_focus_history[s]
    IN IF Len(h) = 0 THEN W1 ELSE focus_xdg_surface(W1, s, h[Len(h)])

\* the loop ends when the node's kb_foci is empty
DestroyLoopExit(W, n) ==
    [W EXCEPT !.destroying = IF W.kb_foci[n] = {} THEN None ELSE n]

\* removal of the node from the tree; a toplevel gives up its history handles
RemoveFromTree(W, n) ==
    [W EXCEPT !.alive = @ \ {n},
              !.toplevel_focus_history =
                  [s \in Seats |-> SelectSeq(@[s], LAMBDA e : e # n)]]

destroy_node_begin(W, n) ==
    DestroyLoopExit(ClearPointerFoci(ClearGrabs(W, n), n), n)

-----------------------------------------------------------------------------
(* Inputs of the model *)

\* raw pointer coordinates the model visits: cells -1..4, some with a fraction
XValues == {-128, 0, 384, 512, 768, 1024}
YValues == {0, 64}

MotionDeltas == {<<-256, 0>>, <<128, 0>>, <<256, 0>>, <<384, 0>>, <<512, 0>>}
OutputIds == {"o1", "o9"}
OutputXs == {-384, 512}
OutputYs == {64}
ScrollDeltas == {15}
ScrollAxes == {"Horizontal", "Vertical"}

\* the nodes that leave the tree while the seat is driven
Destroyed == {"T1", "B1"}

\* the narrower inputs of the specifications for the keyboard and for two seats
FewMotionDeltas == {<<384, 0>>, <<-384, 0>>, <<128, 0>>}
FewButtons == {272}
FewDestroyed == {"T1", "B1"}

-----------------------------------------------------------------------------
(* Initial state: WlSeatGlobal::new and an untouched tree *)

Init ==
    /\ pos = [s \in Seats |-> <<0, 0>>]
    /\ cursor_pos = [s \in Seats |-> <<0, 0>>]
    /\ pressed_keys = [s \in Seats |-> {}]
    /\ kb_mods = [s \in Seats |-> 0]
    /\ grabber = [s \in Seats |-> NoGrab]
    /\ pointer_stack = [s \in Seats |-> <<>>]
    /\ keyboard_node = [s \in Seats |-> Root]
    /\ toplevel_focus_history = [s \in Seats |-> <<>>]
    /\ serial = [s \in Seats |-> 0]
    /\ selection = [s \in Seats |-> None]
    /\ primary_selection = [s \in Seats |-> None]
    /\ pointer_foci = [n \in Nodes |-> {}]
    /\ kb_foci = [n \in Nodes |-> {}]
    /\ grabs = [n \in Nodes |-> {}]
    /\ alive = Nodes
    /\ tree_dirty = [s \in Seats |-> FALSE]
    /\ found_tree = [s \in Seats |-> <<>>]
    /\ destroying = None
    /\ cursor_node = [s \in Seats |-> Root]
    /\ move_ = [s \in Seats |-> FALSE]
    /\ move_start_pos = [s \in Seats |-> <<0, 0>>]
    /\ extents_start_pos = [s \in Seats |-> <<0, 0>>]
    /\ extents = [t \in Toplevels |-> <<OriginX(t), OriginY(t)>>]
    /\ log = <<>>
    /\ last = [op |-> "Init", seat |-> None, node |-> None, a |-> 0, b |-> 0]

-----------------------------------------------------------------------------
(* Actions: WlSeatGlobal::event per variant, tree_changed, destroy_node *)

\* the event loop takes the next backend event of a seat only between handlers
Ready(s) == destroying = None /\ serial[s] < MaxSerial

OutputPositionEvent(s, o, x, y) ==
    /\ Ready(s)
    /\ x + from_int(OutputX(o)) \in XValues
    /\ Commit(output_position_event(St, s, o, x, y), "OutputPosition", s, o, 0, 0)

MotionEvent(s, dx, dy) ==
    /\ Ready(s)
    /\ pos[s][1] + dx \in XValues
    /\ pos[s][2] + dy \in YValues
    /\ Commit(motion_event(St, s, dx, dy), "Motion", s, None, 0, 0)

ButtonEvent(s, button, state) ==
    /\ Ready(s)
    /\ Commit(button_event(St, s, button, state), "Button", s, None, button,
              StateCode(state))

ScrollEvent(s, delta, axis) ==
    /\ Ready(s)
    /\ Commit(scroll_event(St, s, delta, axis), "Scroll", s, None, 0, 0)

KeyEvent(s, key, state) ==
    /\ Ready(s)
    /\ Commit(key_event(St, s, key, state), "Key", s, None, key, StateCode(state))

TreeChanged(s) ==
    /\ Ready(s)
    /\ Commit(tree_changed([St EXCEPT !.tree_dirty[s] = FALSE], s),
              "TreeChanged", s, None, 0, 0)

\* a node other than the root leaves the tree and destroy_node runs on it
DestroyNode(n) ==
    /\ destroying = None
    /\ n \in alive \ {Root}
    /\ Commit(destroy_node_begin(RemoveFromTree(St, n), n),
              "DestroyNode", None, n, 0, 0)

\* the next iteration of the kb_foci loop of the running destroy_node
DestroyKbStep ==
    /\ destroying # None
    /\ \E s \in kb_foci[destroying] :
           /\ serial[s] < 2 * MaxSerial
           /\ Commit(DestroyLoopExit(DestroyKbIteration(St, s, destroying),
                                     destroying),
                     "DestroyKb", s, destroying, 0, 0)

\* one seat is driven, with the full pointer inputs
Next ==
    \/ \E o \in OutputIds, x \in OutputXs, y \in OutputYs :
           OutputPositionEvent("s1", o, x, y)
    \/ \E d \in MotionDeltas : MotionEvent("s1", d[1], d[2])
    \/ \E b \in Buttons, st \in KeyStates : ButtonEvent("s1", b, st)
    \/ \E d \in ScrollDeltas, a \in ScrollAxes : ScrollEvent("s1", d, a)
    \/ TreeChanged("s1")
    \/ \E n \in Destroyed : DestroyNode(n)
    \/ DestroyKbStep

Spec == Init /\ [][Next]_vars

\* one seat is driven, with the keyboard and the narrower pointer inputs
NextKeys ==
    \/ \E k \in Keys, st \in KeyStates : KeyEvent("s1", k, st)
    \/ \E d \in FewMotionDeltas : MotionEvent("s1", d[1], d[2])
    \/ \E b \in FewButtons, st \in KeyStates : ButtonEvent("s1", b, st)
    \/ \E n \in FewDestroyed : DestroyNode(n)
    \/ DestroyKbStep

SpecKeys == Init /\ [][NextKeys]_vars

\* every seat is driven, with the narrower inputs and a shorter run per seat
Few(s) == serial[s] < MaxSeatsSerial

NextSeats ==
    \/ \E s \in Seats, d \in FewMotionDeltas :
           Few(s) /\ MotionEvent(s, d[1], d[2])
    \/ \E s \in Seats, b \in FewButtons, st \in KeyStates :
           Few(s) /\ ButtonEvent(s, b, st)
    \/ \E s \in Seats : Few(s) /\ TreeChanged(s)
    \/ \E n \in FewDestroyed : DestroyNode(n)
    \/ DestroyKbStep

SpecSeats == Init /\ [][NextSeats]_vars

\* a client sets or clears the seat's selection source, or its primary one
SelectionSources == {None, "src1"}

SetSelection(s, src) ==
    /\ Ready(s)
    /\ Commit([St EXCEPT !.selection[s] = src], "SetSelection", s, None, 0, 0)

SetPrimarySelection(s, src) ==
    /\ Ready(s)
    /\ Commit([St EXCEPT !.primary_selection[s] = src],
              "SetPrimarySelection", s, None, 0, 0)

\* one seat is driven, with the narrower pointer inputs and the selections
NextSelection ==
    \/ \E src \in SelectionSources : SetSelection("s1", src)
    \/ \E src \in SelectionSources : SetPrimarySelection("s1", src)
    \/ \E d \in FewMotionDeltas : MotionEvent("s1", d[1], d[2])
    \/ \E b \in FewButtons, st \in KeyStates : ButtonEvent("s1", b, st)

SpecSelection == Init /\ [][NextSelection]_vars

\* every seat is driven with every kind of backend event, a few of each
FewKeys == {42}
OneMotionDelta == {<<384, 0>>}
FewOutputXs == {512}
FewScrollAxes == {"Vertical"}

NextEvents ==
    \E s \in Seats :
        /\ serial[s] < MaxEventsSerial
        /\ \/ \E x \in FewOutputXs, y \in OutputYs : OutputPositionEvent(s, "o1", x, y)
           \/ \E d \in OneMotionDelta : MotionEvent(s, d[1], d[2])
           \/ \E b \in FewButtons, st \in KeyStates : ButtonEvent(s, b, st)
           \/ \E d \in ScrollDeltas, a \in FewScrollAxes : ScrollEvent(s, d, a)
           \/ \E k \in FewKeys, st \in KeyStates : KeyEvent(s, k, st)

SpecEvents == Init /\ [][NextEvents]_vars

\* backend events as values: <<kind, a, b>> with the codes of the protocol
StateOf(code) == IF code = WL_PRESSED THEN "Pressed" ELSE "Released"
AxisOf(code) == IF code = 1 THEN "Horizontal" ELSE "Vertical"

SeatEvents ==
    [kind : {"OutputPosition"}, a : FewOutputXs, b : OutputYs]
    \cup [kind : {"Motion"}, a : {384, -384}, b : {0}]
    \cup [kind : {"Button"}, a : FewButtons, b : {WL_PRESSED, WL_RELEASED}]
    \cup [kind : {"Scroll"}, a : ScrollDeltas, b : {0, 1}]
    \cup [kind : {"Key"}, a : Keys, b : {WL_PRESSED, WL_RELEASED}]

\* WlSeatGlobal::event
event(W, s, e) ==
    CASE e.kind = "OutputPosition" -> output_position_event(W, s, "o1", e.a, e.b)
      [] e.kind = "Motion" -> motion_event(W, s, e.a, e.b)
      [] e.kind = "Button" -> button_event(W, s, e.a, StateOf(e.b))
      [] e.kind = "Scroll" -> scroll_event(W, s, e.a, AxisOf(e.b))
      [] e.kind = "Key" -> key_event(W, s, e.a, StateOf(e.b))

\* the flushes of one handler that fail, by their number in the handler
MaxFlushes == 12
FlushFailures == {{}, {1}, {2}, {1, 3}, 1..MaxFlushes}

\* the state a handler starts from when the flushes numbered in F will fail
StFailing(F) == [St EXCEPT !.flush_fails = F]

\* a backend event is processed while the flushes numbered in F fail
EventWithFlushes(s, e, F) ==
    /\ Ready(s)
    /\ e.kind = "Motion" => (pos[s][1] + e.a) \in XValues
    /\ Commit(event(StFailing(F), s, e), e.kind, s, None,
              IF e.kind \in {"Button", "Key"} THEN e.a ELSE 0,
              IF e.kind \in {"Button", "Key"} THEN e.b ELSE 0)

\* one seat is driven with every kind of event, under every pattern of failures
NextFlush ==
    \E e \in SeatEvents, F \in FlushFailures : EventWithFlushes("s1", e, F)

SpecFlush == Init /\ [][NextFlush]_vars

\* one seat is driven while any node of the first toplevel may leave the
\* tree, its xdg surface A1 before the toplevel itself included
AnyDestroyed == {"T1", "A1", "B1"}

NextDestroy ==
    \/ \E d \in FewMotionDeltas : MotionEvent("s1", d[1], d[2])
    \/ \E b \in FewButtons, st \in KeyStates : ButtonEvent("s1", b, st)
    \/ TreeChanged("s1")
    \/ \E n \in AnyDestroyed : DestroyNode(n)
    \/ DestroyKbStep

SpecDestroy == Init /\ [][NextDestroy]_vars

\* a toplevel is focused through the seat's public focus_toplevel
FocusToplevel(s, tl) ==
    /\ Ready(s)
    /\ tl \in alive /\ XdgSurfaceOf(tl) \in alive
    /\ Commit(focus_toplevel(St, s, tl), "FocusToplevel", s, tl, 0, 0)

\* one seat is driven while toplevels are focused, entered and destroyed
HistoryDestroyed == {"T1", "T3", "A3"}

NextHistory ==
    \/ \E tl \in Toplevels : FocusToplevel("s1", tl)
    \/ \E d \in FewMotionDeltas : MotionEvent("s1", d[1], d[2])
    \/ \E n \in HistoryDestroyed : DestroyNode(n)
    \/ DestroyKbStep

SpecHistory == Init /\ [][NextHistory]_vars

-----------------------------------------------------------------------------
(* The seat of mod.rs: the pointer over toplevels, without grabs or stack *)

BTN_LEFT == 272

\* the cells a toplevel covers from its corner, and its surface's
\* effective_extents corner
Width(t) == Cardinality(Cells(t))
Height(t) == 1
EffectiveX1(t) == IF t = "T2" THEN 1 ELSE 0
EffectiveY1(t) == 0

\* Node::find_node_at from the root: a toplevel that covers the point with
\* the point relative to its corner, or the root with the point as it is
find_node_at(E, xi, yi) ==
    LET hit == {t \in Toplevels :
                    /\ E[t][1] <= xi /\ xi < E[t][1] + Width(t)
                    /\ E[t][2] <= yi /\ yi < E[t][2] + Height(t)}
    IN IF hit = {} THEN {<<Root, xi, yi>>}
       ELSE {<<t, xi - E[t][1], yi - E[t][2]>> : t \in hit}

\* tl_pointer_event and tl_kb_event: the message, then the client's flush
tl_event(W, op, s, tl, a, b, c) == Send(W, op, s, tl, a, b, c)

\* lines 207-230 for the hit r: leave, enter, motion and frame; line 208 takes
\* the fraction of y from the x of line 207
PositionNotify(W, s, cur, r, x, y) ==
    LET node == r[1]
        fx == apply_fract(x, r[2])
        fy == apply_fract(fx, r[3])
        enter == node # cur
        W1 == IF enter /\ Kind(cur) = "toplevel"
              THEN tl_event(W, "send_leave", s, cur, 0, 0, 0) ELSE W
        ex == fx + from_int(EffectiveX1(node))
        ey == fy + from_int(EffectiveY1(node))
        W2 == IF enter THEN tl_event(W1, "send_enter", s, node, 0, ex, ey) ELSE W1
        W3 == tl_event(W2, "send_motion", s, node, 0, ex, ey)
    IN IF Kind(node) = "toplevel"
       THEN tl_event(W3, "send_frame", s, node, 0, 0, 0)
       ELSE W1

\* lines 193-202: the toplevel under the pointer follows the pointer
MovedExtents(s, cur, x, y) ==
    IF Kind(cur) = "toplevel"
    THEN [extents EXCEPT ![cur] =
              <<round_down(x - move_start_pos[s][1]) + extents_start_pos[s][1],
                round_down(y - move_start_pos[s][2]) + extents_start_pos[s][2]>>]
    ELSE extents

ModPositions == {<<x * 128, y * 64>> : x \in 0..7, y \in 0..1}

\* the corners a moved toplevel is followed to
ModCorners == {<<x, y>> : x \in 0..3, y \in -1..0}

\* the toplevels whose clients ask for a move
Movable == {"T1", "T2"}
ModMotionDeltas == {<<384, 0>>, <<-384, 0>>, <<128, 64>>, <<-128, -64>>}

\* motion_event and handle_new_position of mod.rs
ModMotionEvent(s, dx, dy) ==
    LET x == pos[s][1] + dx
        y == pos[s][2] + dy
        cur == cursor_node[s]
        W == [St EXCEPT !.pos[s] = <<x, y>>]
    IN /\ <<x, y>> \in ModPositions
       /\ IF move_[s]
          THEN /\ \A t \in Toplevels : MovedExtents(s, cur, x, y)[t] \in ModCorners
               /\ extents' = MovedExtents(s, cur, x, y)
               /\ cursor_node' = cursor_node
               /\ CommitSeat(W, "motion_event", s, None, 0, 0)
          ELSE \E r \in find_node_at(extents, round_down(x), round_down(y)) :
                   /\ extents' = extents
                   /\ cursor_node' = [cursor_node EXCEPT ![s] = r[1]]
                   /\ CommitSeat(PositionNotify(W, s, cur, r, x, y),
                                 "motion_event", s, r[1], 0, 0)
       /\ UNCHANGED <<move_, move_start_pos, extents_start_pos>>

\* lines 238-283: the button goes to the toplevel under the pointer, which takes
\* the keyboard focus on the left button; a release ends a move
mod_button_event(W, s, button, state) ==
    LET node == cursor_node[s]
        kb_node == W.keyboard_node[s]
        enter == button = BTN_LEFT /\ kb_node # node
        W1 == IF enter /\ Kind(kb_node) = "toplevel"
              THEN tl_event(W, "send_kb_leave", s, kb_node, 0, 0, 0) ELSE W
        W2 == IF enter THEN [W1 EXCEPT !.keyboard_node[s] = node] ELSE W1
        W3 == tl_event(W2, "send_button", s, node, 0, button, StateCode(state))
        W4 == tl_event(W3, "send_kb_enter", s, node, 0, KeyMask(W.pressed_keys[s]), 0)
        W5 == tl_event(W4, "send_modifiers", s, node, 0, W.kb_mods[s], 0)
    IN IF Kind(node) # "toplevel" THEN W2
       ELSE IF enter THEN W5 ELSE W3

ModButtonEvent(s, button, state) ==
    /\ move_' = IF state = "Released" THEN [move_ EXCEPT ![s] = FALSE] ELSE move_
    /\ UNCHANGED <<cursor_node, move_start_pos, extents_start_pos, extents>>
    /\ CommitSeat(mod_button_event(St, s, button, state), "button_event", s,
                  cursor_node[s], button, StateCode(state))

\* lines 102-110: a move begins if the toplevel is the one under the pointer
Move(s, node) ==
    /\ IF cursor_node[s] = node
       THEN /\ move_' = [move_ EXCEPT ![s] = TRUE]
            /\ move_start_pos' = [move_start_pos EXCEPT ![s] = pos[s]]
            /\ extents_start_pos' = [extents_start_pos EXCEPT ![s] = extents[node]]
       ELSE UNCHANGED <<move_, move_start_pos, extents_start_pos>>
    /\ UNCHANGED <<cursor_node, extents>>
    /\ CommitSeat(St, "move_", s, node, 0, 0)

NextMod ==
    \/ \E d \in ModMotionDeltas : ModMotionEvent("s1", d[1], d[2])
    \/ \E b \in Buttons, st \in KeyStates : ModButtonEvent("s1", b, st)
    \/ \E t \in Movable : Move("s1", t)

SpecMod == Init /\ [][NextMod]_vars

-----------------------------------------------------------------------------
(* Reading the log *)

\* the notifications of the log whose operation is in ops, in order
OpsOf(l, ops) == SelectSeq(l, LAMBDA e : e[1] \in ops)

\* the nodes the notifications went to
NodeSeq(l) == [i \in 1..Len(l) |-> l[i][3]]

Reverse(q) == [i \in 1..Len(q) |-> q[Len(q) + 1 - i]]

Leaf(q) == IF Len(q) = 0 THEN None ELSE q[Len(q)]

\* the nodes under the seat's pointer, root first, for a position p in the tree al
HitPath(al, p) == HitFrom(al, Root, round_down(p[1]))

\* the length of the longest common prefix of two paths
CommonPrefix(O, N) ==
    CHOOSE k \in 0..Min(Len(O), Len(N)) :
        /\ \A i \in 1..k : O[i] = N[i]
        /\ k = Min(Len(O), Len(N)) \/ O[k + 1] # N[k + 1]

\* the step is a position update of seat s that reached set_new_position
PositionUpdated(s) ==
    /\ last'.seat = s
    /\ \/ last'.op = "Motion"
       \/ last'.op = "OutputPosition" /\ last'.node \in Outputs

\* the step reconciles the pointer focus of seat s, which holds no grab
Reconciled(s) ==
    /\ grabber[s] = NoGrab
    /\ PositionUpdated(s) \/ (last'.seat = s /\ last'.op = "TreeChanged")

-----------------------------------------------------------------------------
(* C1: Grab precedence.  A Motion or OutputPosition event processed while   *)
(* the seat holds a grab leaves the pointer-focus stack and the grab as     *)
(* they were, emits no enter, leave, pointer_target or pointer_untarget,    *)
(* and delivers motion to the grab target only: once if the event reached   *)
(* set_new_position, whatever node lies under the new position.             *)
GrabPrecedence ==
    [][\A s \in Seats :
          (/\ last'.seat = s
           /\ last'.op \in {"Motion", "OutputPosition"}
           /\ grabber[s] # NoGrab)
          => /\ pointer_stack'[s] = pointer_stack[s]
             /\ grabber'[s] = grabber[s]
             /\ pointer_foci' = pointer_foci
             /\ OpsOf(log', {"enter", "leave", "pointer_target",
                             "pointer_untarget"}) = <<>>
             /\ \A i \in DOMAIN log' :
                    log'[i][1] = "motion"
                    => log'[i][2] = s /\ log'[i][3] = grabber[s].node
             /\ Len(OpsOf(log', {"motion"})) = IF PositionUpdated(s) THEN 1 ELSE 0
      ]_vars

\* a motion was delivered to the grab target while another node is under the pointer
GrabPrecedenceWitness ==
    \E s \in Seats :
        /\ last.op = "Motion" /\ last.seat = s
        /\ grabber[s] # NoGrab
        /\ Len(log) > 0 /\ log[1][1] = "motion" /\ log[1][3] = grabber[s].node
        /\ Leaf(HitPath(alive, pos[s])) # grabber[s].node
        /\ Leaf(pointer_stack[s]) = grabber[s].node

(* C2: Divergence correctness.  A reconciliation with no grab, old stack O, *)
(* new hit path N, common prefix of length d and N not a prefix of O sends  *)
(* leave to exactly O[d+1..] from the top down, then enter to exactly       *)
(* N[d+1..] from the root outward, every leave before every enter.          *)
DivergenceCorrect ==
    [][\A s \in Seats :
          Reconciled(s)
          => LET O == pointer_stack[s]
                 N == HitPath(alive, pos'[s])
                 d == CommonPrefix(O, N)
             IN Len(N) > d
                => /\ NodeSeq(OpsOf(log', {"leave"})) = Reverse(SubSeq(O, d + 1, Len(O)))
                   /\ NodeSeq(OpsOf(log', {"enter"})) = SubSeq(N, d + 1, Len(N))
                   /\ \A i, j \in DOMAIN log' :
                          log'[i][1] = "leave" /\ log'[j][1] = "enter" => i < j
                   /\ pointer_stack'[s] = N
      ]_vars

\* old [root, T1, A1], new [root, T1, B1]: leave(A1), then enter(B1), nothing else
DivergenceCorrectWitness ==
    \E s \in Seats :
        /\ last.op = "Motion" /\ last.seat = s
        /\ pointer_stack[s] = <<Root, "T1", "B1">>
        /\ NodeSeq(OpsOf(log, {"leave", "enter"})) = <<"A1", "B1">>
        /\ OpsOf(log, {"leave"}) # <<>>
        /\ OpsOf(log, {"enter"}) # <<>>

(* C3: Shallower path.  When the new hit path is a strict prefix of the old *)
(* stack and no grab is active, the reconciliation sends leave to the old   *)
(* nodes beyond the prefix, top down, sends no enter, and then sends one    *)
(* motion, to the new leaf.                                                 *)
ShallowerPath ==
    [][\A s \in Seats :
          Reconciled(s)
          => LET O == pointer_stack[s]
                 N == HitPath(alive, pos'[s])
                 d == CommonPrefix(O, N)
             IN (Len(N) = d /\ Len(O) > d)
                => /\ NodeSeq(OpsOf(log', {"leave"})) = Reverse(SubSeq(O, d + 1, Len(O)))
                   /\ OpsOf(log', {"enter"}) = <<>>
                   /\ NodeSeq(OpsOf(log', {"motion"})) = <<Leaf(N)>>
                   /\ \A i, j \in DOMAIN log' :
                          log'[i][1] = "leave" /\ log'[j][1] = "motion" => i < j
                   /\ pointer_stack'[s] = N
      ]_vars

\* old [root, T1, B1], new [root, T1]: leave(B1), then motion to T1
ShallowerPathWitness ==
    \E s \in Seats :
        /\ last.op = "Motion" /\ last.seat = s
        /\ pointer_stack[s] = <<Root, "T1">>
        /\ NodeSeq(OpsOf(log, {"leave", "enter", "motion"})) = <<"B1", "T1">>
        /\ log[2][1] = "leave"

(* Button events *)

\* the step is a Button event of seat s
ButtonStep(s) == last'.seat = s /\ last'.op = "Button"

\* the buttons the grab of seat s holds after the event (lines 116-122)
HeldAfter(s) ==
    IF last'.b = WL_RELEASED
    THEN grabber[s].buttons \ {last'.a} ELSE grabber[s].buttons \cup {last'.a}

(* C4: Grab release idempotence.  While a grab is active, a Button release  *)
(* for a code that is not in the grab's buttons_held delivers no button     *)
(* notification to any node, leaves buttons_held unchanged and does not end *)
(* the grab.                                                                *)
ReleaseOfUnheldIgnored ==
    [][\A s \in Seats :
          (/\ ButtonStep(s)
           /\ last'.b = WL_RELEASED
           /\ grabber[s] # NoGrab
           /\ last'.a \notin grabber[s].buttons)
          => /\ OpsOf(log', {"button", "send_button"}) = <<>>
             /\ grabber'[s] = grabber[s]
      ]_vars

(* C5: Grab lifetime.  In every reachable state a seat has an active grab   *)
(* if and only if its buttons_held is non-empty, and the target's ledger    *)
(* holds a grab for the seat exactly then.  A press with no grab creates    *)
(* one exactly when a node is under the pointer; a Button event during a    *)
(* grab keeps it, on the same target, exactly when a button stays held, and *)
(* otherwise leaves the grab field none and the ledger without the seat.    *)
GrabInv ==
    \A s \in Seats :
        /\ grabber[s].node # None <=> grabber[s].buttons # {}
        /\ \A n \in Nodes : s \in grabs[n] <=> grabber[s].node = n

GrabLifetime ==
    /\ []GrabInv
    /\ [][\A s \in Seats :
             ButtonStep(s)
             => IF grabber[s] = NoGrab
                THEN grabber'[s] =
                       IF last'.b = WL_PRESSED /\ pointer_node(St, s) # None
                       THEN [node |-> pointer_node(St, s), buttons |-> {last'.a}]
                       ELSE NoGrab
                ELSE /\ grabber'[s] =
                          IF HeldAfter(s) = {} THEN NoGrab
                          ELSE [node |-> grabber[s].node, buttons |-> HeldAfter(s)]
                     /\ HeldAfter(s) = {} => s \notin grabs'[grabber[s].node]
       ]_vars

\* a release left the other button held, and the grab is still there
GrabLifetimeWitness ==
    \E s \in Seats :
        /\ last.op = "Button" /\ last.seat = s /\ last.b = WL_RELEASED
        /\ grabber[s].node # None
        /\ grabber[s].buttons # {}
        /\ last.a \notin grabber[s].buttons
        /\ \E i \in DOMAIN log : log[i][1] = "button" /\ log[i][4] = last.a

(* C6 as stated: on the release that empties buttons_held the               *)
(* button(released) notification comes first and the grab is deregistered   *)
(* from the target's ledger only afterwards.                                *)
ReleaseNotifiedBeforeDeregistered ==
    \A i, j \in DOMAIN log :
        log[i][1] = "button" /\ log[j][1] = "remove_pointer_grab" => i < j

(* C6: Release ordering.  On the Button release that empties buttons_held   *)
(* the grab is deregistered from the target's ledger first, and             *)
(* button(released) is delivered to the former grab target afterwards: when *)
(* the notification is delivered the grab is no longer registered.          *)
ReleaseOrdering ==
    [][\A s \in Seats :
          (/\ ButtonStep(s)
           /\ last'.b = WL_RELEASED
           /\ grabber[s] # NoGrab
           /\ HeldAfter(s) = {})
          => /\ Len(log') >= 2
             /\ log'[1] = <<"remove_pointer_grab", s, grabber[s].node, 0, 0, 0>>
             /\ log'[2] = <<"button", s, grabber[s].node, last'.a, WL_RELEASED, 0>>
             /\ \A i \in DOMAIN log' : log'[i][1] = "remove_pointer_grab" => i = 1
             /\ \A i \in DOMAIN log' : log'[i][1] = "button" => i = 2
      ]_vars

\* the last held button was released: deregistration, then the notification
ReleaseOrderingWitness ==
    \E s \in Seats :
        /\ last.op = "Button" /\ last.seat = s /\ last.b = WL_RELEASED
        /\ grabber[s] = NoGrab
        /\ Len(log) >= 2
        /\ log[1][1] = "remove_pointer_grab"
        /\ log[2][1] = "button" /\ log[2][3] = log[1][3]

-----------------------------------------------------------------------------
(* Key events *)

(* C7: Key de-duplication.  A Key Pressed event for a code already in the   *)
(* seat's pressed-key set, or a Key Released event for a code not in it,    *)
(* delivers no key or modifiers notification, makes no call to the modifier *)
(* service, consumes no serial and leaves the pressed-key set unchanged.    *)
KeyDeduplication ==
    [][\A s \in Seats :
          (/\ last'.seat = s /\ last'.op = "Key"
           /\ \/ last'.b = WL_PRESSED /\ last'.a \in pressed_keys[s]
              \/ last'.b = WL_RELEASED /\ last'.a \notin pressed_keys[s])
          => /\ log' = <<>>
             /\ serial' = serial
             /\ pressed_keys' = pressed_keys
             /\ kb_mods' = kb_mods
      ]_vars

\* a key that is down was pressed again and nothing was delivered
KeyDeduplicationWitness ==
    \E s \in Seats :
        /\ last.op = "Key" /\ last.seat = s /\ last.b = WL_PRESSED
        /\ last.a \in pressed_keys[s]
        /\ keyboard_node[s] \in Surfaces
        /\ log = <<>>

-----------------------------------------------------------------------------
(* Node destruction *)

\* the seat's keyboard focus after the fallback of destroy_node
Fallback(s) ==
    LET h == toplevel_focus_history[s]
    IN IF Len(h) = 0 THEN Root ELSE XdgSurfaceOf(h[Len(h)])

(* C8: Destruction fallback.  When destroy_node(X) handles a seat that has  *)
(* keyboard focus on X, the seat's keyboard-focus node afterwards is the    *)
(* focus surface of the most recent entry of its toplevel focus history,    *)
(* and the scene root if the history is empty.                              *)
DestructionFallback ==
    [][\A s \in Seats :
          (last'.op = "DestroyKb" /\ last'.seat = s)
          => /\ keyboard_node[s] = last'.node
             /\ toplevel_focus_history'[s] = toplevel_focus_history[s]
             /\ keyboard_node'[s] = Fallback(s)
             /\ Len(toplevel_focus_history[s]) > 0 => keyboard_node'[s] # Root
      ]_vars

\* history [T2, T1] and the focused B1 destroyed: the focus is on T1's surface
DestructionFallbackWitness ==
    \E s \in Seats :
        /\ last.op = "DestroyKb" /\ last.seat = s /\ last.node = "B1"
        /\ destroying = None
        /\ toplevel_focus_history[s] = <<"T2", "T1">>
        /\ keyboard_node[s] = "A1"
        /\ \E i \in DOMAIN log : log[i][1] = "send_kb_enter" /\ log[i][3] = "A1"

(* C9: No dangling references.  After destroy_node(n) completes, for every  *)
(* seat, n is not in the seat's pointer-focus stack, n is not the seat's    *)
(* keyboard-focus node, n is not the target of the seat's grab, and the     *)
(* ledger of n holds no reference to the seat.                              *)
NoDanglingReferences ==
    (destroying = None /\ last.op \in {"DestroyNode", "DestroyKb"})
    => \A s \in Seats :
           /\ \A i \in DOMAIN pointer_stack[s] : pointer_stack[s][i] # last.node
           /\ keyboard_node[s] # last.node
           /\ grabber[s].node # last.node
           /\ s \notin grabs[last.node]
           /\ s \notin pointer_foci[last.node]
           /\ s \notin kb_foci[last.node]

\* B1 was under both pointers and had the keyboard focus of both seats
NoDanglingReferencesWitness ==
    /\ destroying = None
    /\ last.op = "DestroyKb" /\ last.node = "B1"
    /\ \A s \in Seats :
           /\ tree_dirty[s]
           /\ pointer_stack[s] = <<Root, "T1">>
           /\ keyboard_node[s] = "A1"
           /\ grabber[s] = NoGrab

-----------------------------------------------------------------------------
(* Keyboard focus of several seats *)

\* the log holds the notification op of seat s to node n
Notified(l, op, s, n) ==
    \E i \in DOMAIN l : l[i][1] = op /\ l[i][2] = s /\ l[i][3] = n

\* the log holds active_changed(active) to node n
ActiveChanged(l, n, active) ==
    \E i \in DOMAIN l :
        l[i][1] = "active_changed" /\ l[i][3] = n /\ l[i][4] = SendBool(active)

\* another seat than s has its keyboard focus on a node of the client of n
ClientFocusedByOther(kn, s, n) ==
    \E o \in Seats \ {s} : ClientOf(kn[o]) # None /\ ClientOf(kn[o]) = ClientOf(n)

FocusMoved(s, o, n) ==
    /\ o # n
    /\ keyboard_node[s] = o
    /\ keyboard_node'[s] = n
    /\ Notified(log', "unfocus", s, o)
    /\ Notified(log', "focus", s, n)

-----------------------------------------------------------------------------
(* Selections *)

\* the number of notifications op that seat s sent for node n
Count(l, op, s, n) ==
    Len(SelectSeq(l, LAMBDA e : e[1] = op /\ e[2] = s /\ e[3] = n))

\* the selection notifications of a log
SelectionOps ==
    {"create_offer", "send_selection_none",
     "create_primary_offer", "send_primary_selection_none"}

\* the step moves the keyboard focus of seat s from node o to a surface n
FocusTransferred(s, o, n) ==
    /\ o # n
    /\ keyboard_node[s] = o
    /\ keyboard_node'[s] = n
    /\ Notified(log', "focus", s, n)

(* C12: Cross-client focus.  A keyboard-focus transfer to a node of client  *)
(* K2 when the previous focus belonged to a different client sends, for the *)
(* selection, exactly one create_offer for K2 and no send_selection(NONE)   *)
(* if the seat holds a source, and exactly one send_selection(NONE) to K2   *)
(* and no create_offer if it holds none; the primary selection is handled   *)
(* the same way with its own source; no selection notification goes to any  *)
(* other node, and a transfer within one client sends none.                 *)
CrossClientFocus ==
    [][\A s \in Seats, o \in Nodes, n \in Surfaces :
          FocusTransferred(s, o, n)
          => /\ \A i \in DOMAIN log' :
                    log'[i][1] \in SelectionOps => log'[i][2] = s /\ log'[i][3] = n
             /\ IF ClientOf(o) = ClientOf(n)
                THEN OpsOf(log', SelectionOps) = <<>>
                ELSE /\ Count(log', "create_offer", s, n)
                          = IF selection[s] # None THEN 1 ELSE 0
                     /\ Count(log', "send_selection_none", s, n)
                          = IF selection[s] # None THEN 0 ELSE 1
                     /\ Count(log', "create_primary_offer", s, n)
                          = IF primary_selection[s] # None THEN 1 ELSE 0
                     /\ Count(log', "send_primary_selection_none", s, n)
                          = IF primary_selection[s] # None THEN 0 ELSE 1
             /\ selection' = selection
             /\ primary_selection' = primary_selection
      ]_vars

\* with a selection source and no primary one, the focus went from K1's A1 to K2's A2
CrossClientFocusWitness ==
    \E s \in Seats :
        /\ last.op = "Motion" /\ last.seat = s
        /\ keyboard_node[s] = "A2"
        /\ Notified(log, "unfocus", s, "A1")
        /\ ClientOf("A1") # ClientOf("A2")
        /\ selection[s] # None
        /\ primary_selection[s] = None
        /\ Count(log, "create_offer", s, "A2") = 1
        /\ Count(log, "send_primary_selection_none", s, "A2") = 1

-----------------------------------------------------------------------------
(* Focus requests *)

\* the notifications a keyboard-focus transfer sends
FocusOps ==
    {"unfocus", "focus", "active_changed", "send_kb_leave", "send_kb_enter",
     "send_modifiers"} \cup SelectionOps

(* C13: A focus request for the already-focused node is a silent no-op.     *)
(* focus_surface on the surface that is the seat's keyboard-focus node      *)
(* returns the state it was given: no notification, no serial consumed, no  *)
(* change of the seat or of a ledger.  A Button press on the focused        *)
(* surface, which makes that request, sends the button and nothing of a     *)
(* focus transfer.                                                          *)
FocusSameNodeNoOp ==
    /\ [](\A s \in Seats :
              keyboard_node[s] \in Surfaces
              => focus_surface(St, s, keyboard_node[s]) = St)
    /\ [][\A s \in Seats :
             (/\ ButtonStep(s) /\ last'.b = WL_PRESSED
              /\ grabber[s] = NoGrab
              /\ pointer_node(St, s) \in Surfaces
              /\ BelongsToToplevel(pointer_node(St, s))
              /\ keyboard_node[s] = pointer_node(St, s))
             => /\ OpsOf(log', FocusOps) = <<>>
                /\ Notified(log', "send_button", s, keyboard_node[s])
                /\ serial'[s] = serial[s] + 1
                /\ keyboard_node' = keyboard_node
                /\ kb_foci' = kb_foci
                /\ toplevel_focus_history' = toplevel_focus_history
                /\ pressed_keys' = pressed_keys
                /\ selection' = selection
       ]_vars

\* a press on B1, which has the keyboard focus: the button is sent, no focus transfer
FocusSameNodeNoOpWitness ==
    \E s \in Seats :
        /\ last.op = "Button" /\ last.seat = s /\ last.b = WL_PRESSED
        /\ grabber[s].node = "B1" /\ grabber[s].buttons = {last.a}
        /\ keyboard_node[s] = "B1"
        /\ Notified(log, "send_button", s, "B1")
        /\ ~Notified(log, "focus", s, "B1")

-----------------------------------------------------------------------------
(* Button presses *)

(* C14 as stated: on a Button press with no grab, the node that becomes the *)
(* grab target and receives button(pressed) is the deepest node of the hit  *)
(* path at the seat's current position in the current tree; the grab is     *)
(* {that leaf, {code}} and the leaf's ledger holds it.                      *)
PressLandsOnHitLeaf ==
    [][\A s \in Seats :
          (ButtonStep(s) /\ last'.b = WL_PRESSED /\ grabber[s] = NoGrab)
          => LET N == HitPath(alive, pos[s])
             IN IF Len(N) = 0
                THEN grabber'[s] = NoGrab /\ OpsOf(log', {"button"}) = <<>>
                ELSE /\ grabber'[s] = [node |-> Leaf(N), buttons |-> {last'.a}]
                     /\ s \in grabs'[Leaf(N)]
                     /\ NodeSeq(OpsOf(log', {"button"})) = <<Leaf(N)>>
      ]_vars

\* after a drag from A1 to the cell of A2 and the release, a press still lands on A1
PressOnStaleLeaf ==
    \E s \in Seats :
        /\ last.op = "Button" /\ last.seat = s /\ last.b = WL_PRESSED
        /\ grabber[s] = [node |-> "A1", buttons |-> {last.a}]
        /\ Notified(log, "add_pointer_grab", s, "A1")
        /\ Notified(log, "button", s, "A1")
        /\ Leaf(HitPath(alive, pos[s])) = "A2"

(* C15: Press during grab.  A Button press while a grab is active adds the  *)
(* code to buttons_held, leaves the grab target, the ledgers and the        *)
(* pointer-focus stack unchanged, and delivers button(pressed) to the grab  *)
(* target and to no other node, whatever the leaf of the stack and the node *)
(* under the pointer are.                                                   *)
PressDuringGrab ==
    [][\A s \in Seats :
          (ButtonStep(s) /\ last'.b = WL_PRESSED /\ grabber[s] # NoGrab)
          => /\ grabber'[s] = [node |-> grabber[s].node,
                               buttons |-> grabber[s].buttons \cup {last'.a}]
             /\ grabs' = grabs
             /\ pointer_stack' = pointer_stack
             /\ pointer_foci' = pointer_foci
             /\ log'[1] = <<"button", s, grabber[s].node, last'.a, WL_PRESSED, 0>>
             /\ NodeSeq(OpsOf(log', {"button", "send_button"}))
                    \in {<<grabber[s].node>>, <<grabber[s].node, grabber[s].node>>}
             /\ OpsOf(log', {"add_pointer_grab", "remove_pointer_grab"}) = <<>>
      ]_vars

\* a second button pressed in a grab of B1, with the stack cut down to the root
\* and the pointer over another node
PressDuringGrabWitness ==
    \E s \in Seats :
        /\ last.op = "Button" /\ last.seat = s /\ last.b = WL_PRESSED
        /\ grabber[s].node = "B1"
        /\ grabber[s].buttons = Buttons
        /\ Leaf(pointer_stack[s]) # "B1"
        /\ Leaf(HitPath(alive, pos[s])) # "B1"
        /\ Notified(log, "button", s, "B1")

-----------------------------------------------------------------------------
(* Scroll events *)

\* the state of the seats and of the ledgers: everything but the log of the step
SeatsAndLedgers ==
    <<pos, cursor_pos, pressed_keys, kb_mods, grabber, pointer_stack,
      keyboard_node, toplevel_focus_history, serial, selection,
      primary_selection, pointer_foci, kb_foci, grabs, alive, tree_dirty,
      found_tree, destroying>>

\* the node a Scroll event of seat s goes to
ScrollTarget(s) ==
    IF grabber[s] # NoGrab THEN grabber[s].node ELSE Leaf(pointer_stack[s])

(* C16: Scroll routing.  A Scroll event is delivered to exactly one node,   *)
(* the grab target if a grab is active and otherwise the leaf of the        *)
(* pointer-focus stack; with no grab and an empty stack it is dropped; in   *)
(* every case the state of the seats and of the ledgers is unchanged.       *)
ScrollRouting ==
    [][\A s \in Seats :
          (last'.seat = s /\ last'.op = "Scroll")
          => /\ SeatsAndLedgers' = SeatsAndLedgers
             /\ IF ScrollTarget(s) = None
                THEN log' = <<>>
                ELSE /\ NodeSeq(OpsOf(log', {"scroll"})) = <<ScrollTarget(s)>>
                     /\ \A i \in DOMAIN log' :
                            log'[i][2] = s /\ log'[i][3] = ScrollTarget(s)
                     /\ Len(OpsOf(log', {"send_axis"}))
                            = IF Kind(ScrollTarget(s)) = "surface" THEN 1 ELSE 0
      ]_vars

\* a scroll during a grab of B1 went to B1, which is not the leaf of the stack
ScrollRoutingWitness ==
    \E s \in Seats :
        /\ last.op = "Scroll" /\ last.seat = s
        /\ grabber[s].node = "B1"
        /\ Leaf(pointer_stack[s]) \notin {None, "B1"}
        /\ Notified(log, "scroll", s, "B1")
        /\ Notified(log, "send_axis", s, "B1")

\* a scroll with no grab and an empty stack was dropped
ScrollDropped ==
    \E s \in Seats :
        /\ last.op = "Scroll" /\ last.seat = s
        /\ grabber[s] = NoGrab /\ pointer_stack[s] = <<>>
        /\ log = <<>>

-----------------------------------------------------------------------------
(* Pointer targets *)

(* C17 as stated: in every step, pointer_target(seat) is called on a node   *)
(* exactly when it becomes the deepest node of the seat's pointer-focus     *)
(* stack, and pointer_untarget(seat) on a surviving node exactly when it    *)
(* ceases to be.                                                            *)
PointerTargetEdges ==
    [][\A s \in Seats :
          LET ol == Leaf(pointer_stack[s])
              nl == Leaf(pointer_stack'[s])
          IN /\ \A n \in Nodes :
                    Notified(log', "pointer_target", s, n) <=> (n = nl /\ ol # nl)
             /\ \A n \in alive' :
                    Notified(log', "pointer_untarget", s, n) <=> (n = ol /\ ol # nl)
      ]_vars

\* destroy_node(B1) left T1 as the leaf of the stack, and T1 was told nothing
LeafWithoutPointerTarget ==
    \E s \in Seats :
        /\ last.op = "DestroyNode" /\ last.node = "B1"
        /\ tree_dirty[s]
        /\ pointer_stack[s] = <<Root, "T1">>
        /\ OpsOf(log, {"pointer_target", "pointer_untarget"}) = <<>>

-----------------------------------------------------------------------------
(* The grab relation *)

\* the nodes whose ledger holds a grab of seat s
GrabbedBy(s) == {n \in Nodes : s \in grabs[n]}

(* C18: The grab relation is 1:1 and symmetric.  In every reachable state   *)
(* each seat is in the grab ledger of at most one node, and the seat's grab *)
(* field names node n if and only if n's ledger holds a grab of the seat.   *)
GrabRelation ==
    \A s \in Seats :
        /\ Cardinality(GrabbedBy(s)) <= 1
        /\ GrabbedBy(s) = IF grabber[s] = NoGrab THEN {} ELSE {grabber[s].node}
        /\ grabber[s] # NoGrab => grabber[s].node \in Nodes

\* two seats grab B1 at once, each in B1's ledger and nowhere else
GrabRelationWitness ==
    /\ grabs["B1"] = Seats
    /\ \A s \in Seats : grabber[s].node = "B1" /\ GrabbedBy(s) = {"B1"}

-----------------------------------------------------------------------------
(* Several seats *)

\* the operations that are backend events
BackendEvents == {"OutputPosition", "Motion", "Button", "Scroll", "Key"}

\* what seat o owns, and its entries in the ledgers
SeatView(o) ==
    <<pos[o], cursor_pos[o], pressed_keys[o], kb_mods[o], grabber[o],
      pointer_stack[o], keyboard_node[o], toplevel_focus_history[o], serial[o],
      selection[o], primary_selection[o],
      {n \in Nodes : o \in pointer_foci[n]},
      {n \in Nodes : o \in kb_foci[n]},
      {n \in Nodes : o \in grabs[n]}>>

(* C19: Seat independence.  A backend event processed for seat S leaves     *)
(* every other seat's position, pressed keys, modifiers, grab, pointer      *)
(* stack, keyboard-focus node, focus history and serial unchanged, adds or  *)
(* removes no entry of another seat in any ledger, and sends notifications  *)
(* in the name of S only.                                                   *)
SeatIndependence ==
    [][\A s \in Seats :
          (last'.seat = s /\ last'.op \in BackendEvents)
          => /\ \A o \in Seats \ {s} : SeatView(o)' = SeatView(o)
             /\ \A i \in DOMAIN log' : log'[i][2] = s
      ]_vars

\* both seats grabbed B1; one released, and the other's grab is intact
SeatIndependenceWitness ==
    \E s \in Seats, o \in Seats :
        /\ s # o
        /\ last.op = "Button" /\ last.seat = s /\ last.b = WL_RELEASED
        /\ Notified(log, "remove_pointer_grab", s, "B1")
        /\ grabber[s] = NoGrab
        /\ grabber[o] = [node |-> "B1", buttons |-> {last.a}]
        /\ grabs["B1"] = {o}

-----------------------------------------------------------------------------
(* Delivery failures *)

\* a log with the outcome of every flush masked
MaskFlush(l) ==
    [i \in DOMAIN l |->
        IF l[i][1] = "flush" THEN <<"flush", l[i][2], l[i][3], 1, 0, 0>> ELSE l[i]]

\* what a handler did, apart from the outcomes of its flushes
Outcome(W) == [W EXCEPT !.flush_fails = {}, !.log = MaskFlush(W.log)]

\* some flush of the log failed
FlushFailed(l) == \E i \in DOMAIN l : l[i][1] = "flush" /\ l[i][4] = 0

(* C20: Delivery failure does not affect state.  From every reachable state *)
(* and for every backend event, the state of the seats and ledgers and the  *)
(* sequence of notifications and flushes are the same whichever flushes of  *)
(* the handler fail: nothing is rolled back, no message is sent again, and  *)
(* the state, which keeps no trace of a failure, takes the next events as   *)
(* it would have.                                                           *)
FlushIndependence ==
    \A s \in Seats, e \in SeatEvents, F \in FlushFailures :
        Outcome(event(StFailing(F), s, e)) = event(St, s, e)

\* a press whose flushes all failed: the grab and the focus transfer were applied
FlushIndependenceWitness ==
    \E s \in Seats :
        /\ last.op = "Button" /\ last.seat = s /\ last.b = WL_PRESSED
        /\ FlushFailed(log)
        /\ \A i \in DOMAIN log : log[i][1] = "flush" => log[i][4] = 0
        /\ grabber[s] = [node |-> "B1", buttons |-> {last.a}]
        /\ keyboard_node[s] = "B1"
        /\ Notified(log, "focus", s, "B1")

\* an event was processed with a failed flush after an earlier event whose flushes failed
FlushFailedTwice ==
    \E s \in Seats :
        /\ last.op = "Key" /\ last.seat = s
        /\ FlushFailed(log)
        /\ Notified(log, "send_key", s, "B1")
        /\ serial[s] >= 6

-----------------------------------------------------------------------------
(* The pointer-focus ledger *)

\* the nodes of a stack
InStack(q) == {q[i] : i \in DOMAIN q}

(* C21 as stated: between operations, for every seat and node, the seat is  *)
(* recorded in the node's pointer-focus ledger if and only if the node is   *)
(* an element of the seat's pointer-focus stack.                            *)
PointerLedgerConsistent ==
    \A s \in Seats, n \in Nodes :
        s \in pointer_foci[n] <=> n \in InStack(pointer_stack[s])

\* destroy_node(T1) popped B1 from the stack and left the seat in B1's ledger
PointerLedgerStale ==
    \E s \in Seats :
        /\ last.op = "DestroyNode" /\ last.node = "T1"
        /\ pointer_stack[s] = <<Root>>
        /\ s \in pointer_foci["B1"]
        /\ "B1" \in alive

(* C22 as stated: for every seat recorded in n's pointer-focus ledger,      *)
(* destroy_node(n) leaves the seat's pointer-focus stack equal to the       *)
(* prefix of its previous stack that lay strictly below n, and raises the   *)
(* tree-changed signal for the seat.                                        *)
DestroyPopsThroughNode ==
    [][\A n \in Nodes, s \in Seats :
          (last'.op = "DestroyNode" /\ last'.node = n /\ s \in pointer_foci[n])
          => /\ \E i \in DOMAIN pointer_stack[s] :
                    /\ pointer_stack[s][i] = n
                    /\ pointer_stack'[s] = SubSeq(pointer_stack[s], 1, i - 1)
             /\ tree_dirty'[s]
             /\ Notified(log', "tree_changed", s, None)
      ]_vars

\* destroy_node(B1) after destroy_node(T1): B1 was not in the stack, the root was popped
DestroyPopsWholeStack ==
    \E s \in Seats :
        /\ last.op = "DestroyNode" /\ last.node = "B1"
        /\ "T1" \notin alive
        /\ Notified(log, "tree_changed", s, None)
        /\ pointer_stack[s] = <<>>
        /\ Root \in alive

(* Termination of destroy_node *)

(* C23 as stated: destroy_node terminates.  Its loop over the seats with    *)
(* pointer focus ends within the DestroyNode step; its loop over the seats  *)
(* with keyboard focus on the node ends when the node's keyboard ledger is  *)
(* empty, so every iteration must leave the ledger strictly smaller, for    *)
(* every content of the focus history.                                      *)
DestroyKbLoopProgress ==
    [][last'.op = "DestroyKb"
          => /\ kb_foci'[destroying] \subseteq kb_foci[destroying]
             /\ kb_foci'[destroying] # kb_foci[destroying]
      ]_vars

\* an iteration of destroy_node(A1) that ended where it began: the refocus of
\* the history's toplevel T1 gave the keyboard focus back to A1
DestroyKbLoopRepeats ==
    /\ last.op = "DestroyKb" /\ last.node = "A1"
    /\ destroying = "A1"
    /\ "A1" \notin alive
    /\ keyboard_node["s1"] = "A1"
    /\ kb_foci["A1"] = {"s1"}
    /\ toplevel_focus_history["s1"][Len(toplevel_focus_history["s1"])] = "T1"

(* Reconciliation of the pointer focus *)

(* C24: after every position update that reaches set_new_position and after *)
(* every tree-changed reconciliation, made while the seat holds no grab,    *)
(* the seat's pointer-focus stack is the hit path of the tree at the        *)
(* integer-truncated pointer position, root first, and the seat's scratch   *)
(* hit-path buffer is empty again.                                          *)
StackIsHitPath ==
    [][\A s \in Seats :
          Reconciled(s)
          => /\ pointer_stack'[s] = HitPath(alive', pos'[s])
             /\ found_tree'[s] = <<>>
      ]_vars

\* a motion from B1 to A2: two nodes left, two entered, the stack is the new path
StackIsHitPathWitness ==
    \E s \in Seats :
        /\ last.op = "Motion" /\ last.seat = s
        /\ grabber[s] = NoGrab
        /\ Notified(log, "leave", s, "B1")
        /\ Notified(log, "enter", s, "A2")
        /\ pointer_stack[s] = <<Root, "T2", "A2">>
        /\ pointer_stack[s] = HitPath(alive, pos[s])
        /\ found_tree[s] = <<>>

\* the notifications a reconciliation makes to nodes when the path changes
PathOps == {"enter", "leave", "pointer_target", "pointer_untarget"}

(* C25: a position update made while the seat holds no grab, whose hit path *)
(* at the new position is the seat's current pointer-focus stack, delivers  *)
(* exactly one motion, to the leaf of the stack, and no enter, leave,       *)
(* pointer_target or pointer_untarget; the stack and every node's           *)
(* pointer-focus ledger are unchanged.                                      *)
IdenticalPathMotion ==
    [][\A s \in Seats :
          (/\ PositionUpdated(s)
           /\ grabber[s] = NoGrab
           /\ HitPath(alive, pos'[s]) = pointer_stack[s])
          => /\ NodeSeq(OpsOf(log', {"motion"})) = <<Leaf(pointer_stack[s])>>
             /\ OpsOf(log', PathOps) = <<>>
             /\ pointer_stack' = pointer_stack
             /\ pointer_foci' = pointer_foci
      ]_vars

\* the pointer moved within A2: one motion to A2, in A2's coordinates
IdenticalPathMotionWitness ==
    \E s \in Seats :
        /\ last.op = "OutputPosition" /\ last.seat = s /\ last.node \in Outputs
        /\ grabber[s] = NoGrab
        /\ pointer_stack[s] = <<Root, "T2", "A2">>
        /\ pos[s] = <<768, 64>>
        /\ OpsOf(log, PathOps) = <<>>
        /\ OpsOf(log, {"motion"}) = <<<<"motion", s, "A2", 0, 0, 64>>>>

\* the step is a tree-changed reconciliation of seat s
TreeChangedStep(s) == last'.op = "TreeChanged" /\ last'.seat = s

(* C26: tree_changed reconciles the pointer focus at the seat's existing    *)
(* position: it never changes the position or the cursor position; with no  *)
(* grab the stack afterwards is the hit path at that position, and nothing  *)
(* is delivered when the hit path is the stack already; while a grab is     *)
(* active nothing is delivered and the stack is unchanged.                  *)
TreeChangedReconciles ==
    [][\A s \in Seats :
          TreeChangedStep(s)
          => /\ pos' = pos
             /\ cursor_pos' = cursor_pos
             /\ grabber[s] = NoGrab
                    => pointer_stack'[s] = HitPath(alive, pos[s])
             /\ (grabber[s] = NoGrab /\ HitPath(alive, pos[s]) = pointer_stack[s])
                    => (log' = <<>> /\ pointer_stack' = pointer_stack)
             /\ grabber[s] # NoGrab
                    => (log' = <<>> /\ pointer_stack' = pointer_stack)
      ]_vars

\* tree_changed during a grab of B1, with the pointer over A2: nothing happened
TreeChangedReconcilesWitness ==
    \E s \in Seats :
        /\ last.op = "TreeChanged" /\ last.seat = s
        /\ grabber[s].node = "B1"
        /\ pointer_stack[s] = <<Root, "T1", "B1">>
        /\ HitPath(alive, pos[s]) = <<Root, "T2", "A2">>
        /\ log = <<>>

(* The keyboard-focus ledger *)

(* C27: between operations, for every seat and every node other than the    *)
(* root, the seat is recorded in the node's keyboard-focus ledger if and    *)
(* only if the node is the seat's keyboard-focus node; a seat is therefore  *)
(* in at most one keyboard-focus ledger.  This holds after focus transfers  *)
(* and after every iteration of destroy_node.                               *)
KeyboardLedgerConsistent ==
    /\ \A s \in Seats, n \in Nodes \ {Root} :
           s \in kb_foci[n] <=> n = keyboard_node[s]
    /\ \A s \in Seats : Cardinality({n \in Nodes : s \in kb_foci[n]}) <= 1

\* destroy_node(B1) took the keyboard focus of a seat from B1 to A1, the
\* surface of the history's most recent toplevel
KeyboardLedgerConsistentWitness ==
    \E s \in Seats :
        /\ last.op = "DestroyKb" /\ last.node = "B1" /\ last.seat = s
        /\ keyboard_node[s] = "A1"
        /\ s \in kb_foci["A1"]
        /\ kb_foci["B1"] = {}

(* Keyboard-focus transfers *)

\* the node focus_surface finds as the old keyboard node in the step:
\* destroy_node has set the root before it refocuses
OldFocus(s) ==
    IF last'.op = "DestroyKb" /\ last'.seat = s THEN Root ELSE keyboard_node[s]

\* the notifications that make up the transfer, in the order they were sent
TransferOps == {"unfocus", "focus", "send_kb_enter", "send_modifiers"}

(* C28: a focus_surface that moves a seat's keyboard focus to a different   *)
(* node emits, in this order, unfocus to the old node, focus to the new     *)
(* one, a keyboard enter to the new one carrying exactly the seat's pressed *)
(* keys, and the seat's modifier snapshot, with consecutive serials; the    *)
(* unfocus is sent whatever the old node is; afterwards the keyboard node   *)
(* is the new node and the pressed keys are unchanged.                      *)
FocusTransferOrder ==
    [][\A s \in Seats :
          (keyboard_node'[s] # OldFocus(s) /\ last'.op # "DestroyNode")
          => LET o == OldFocus(s)
                 n == keyboard_node'[s]
                 F == SelectSeq(log', LAMBDA e : e[1] \in TransferOps /\ e[2] = s)
             IN /\ n \in Surfaces
                /\ Len(F) = 4
                /\ F[1] = <<"unfocus", s, o, 0, 0, 0>>
                /\ F[2] = <<"focus", s, n, 0, 0, 0>>
                /\ F[3] = <<"send_kb_enter", s, n, F[3][4],
                            KeyMask(pressed_keys[s]), 0>>
                /\ F[4] = <<"send_modifiers", s, n, F[3][4] + 1, kb_mods[s], 0>>
                /\ F[3][4] >= serial[s] /\ F[4][4] < serial'[s]
                /\ pressed_keys'[s] = pressed_keys[s]
      ]_vars

\* with both keys held, a motion took the keyboard focus from A1 to A2
FocusTransferOrderWitness ==
    \E s \in Seats :
        /\ last.op = "Motion" /\ last.seat = s
        /\ keyboard_node[s] = "A2"
        /\ pressed_keys[s] = Keys
        /\ kb_mods[s] # 0
        /\ Notified(log, "unfocus", s, "A1")
        /\ \E i \in DOMAIN log :
               /\ log[i][1] = "send_kb_enter" /\ log[i][3] = "A2"
               /\ log[i][5] = KeyMask(Keys)

(* Key events *)

\* the step is a Key event of seat s that passed the de-duplication
KeyStepAccepted(s) ==
    /\ last'.op = "Key" /\ last'.seat = s
    /\ KeyAccepted(pressed_keys[s], last'.a, StateOf(last'.b))

(* C29: every accepted key transition calls the modifier service exactly    *)
(* once, with the key and its direction, and then delivers the key, once,   *)
(* to the seat's keyboard-focus node, the root if the focus was never       *)
(* transferred; a surface is sent the key and, after it, the modifiers if   *)
(* and only if the service returned a changed snapshot.  A key event never  *)
(* changes the keyboard focus, the grab or the pointer-focus stack.         *)
KeyDelivery ==
    [][\A s \in Seats :
          KeyStepAccepted(s)
          => LET key == last'.a
                 dir == IF last'.b = WL_PRESSED THEN XKB_KEY_DOWN ELSE XKB_KEY_UP
                 n == keyboard_node[s]
                 changed == kb_mods'[s] # kb_mods[s]
                 mods == IF changed THEN kb_mods'[s] ELSE NoMods
                 sent == OpsOf(log', {"send_key", "send_modifiers"})
             IN /\ Len(log') >= 2
                /\ log'[1] = <<"xkb_update", s, None, key, dir, 0>>
                /\ log'[2] = <<"key", s, n, key, last'.b, mods>>
                /\ Len(OpsOf(log', {"xkb_update"})) = 1
                /\ Len(OpsOf(log', {"key"})) = 1
                /\ sent = IF n \notin Surfaces THEN <<>>
                          ELSE IF changed
                          THEN << <<"send_key", s, n, serial[s], key, last'.b>>,
                                  <<"send_modifiers", s, n, serial[s] + 1,
                                    kb_mods'[s], 0>> >>
                          ELSE << <<"send_key", s, n, serial[s], key, last'.b>> >>
                /\ keyboard_node' = keyboard_node
                /\ kb_foci' = kb_foci
                /\ grabber' = grabber
                /\ grabs' = grabs
                /\ pointer_stack' = pointer_stack
                /\ pointer_foci' = pointer_foci
      ]_vars

\* the modifier key released on A1 during a grab: the key, then the modifiers
KeyDeliveryWitness ==
    \E s \in Seats :
        /\ last.op = "Key" /\ last.seat = s /\ last.a \in ModKeys
        /\ last.b = WL_RELEASED
        /\ keyboard_node[s] = "A1"
        /\ grabber[s] # NoGrab
        /\ NodeSeq(OpsOf(log, {"send_key", "send_modifiers"})) = <<"A1", "A1">>
        /\ kb_mods[s] = 0

(* Focus on press *)

\* the node the Button step notified
ButtonTarget == Leaf(NodeSeq(OpsOf(log', {"button"})))

(* C30: a Button press delivered to a surface that belongs to a toplevel    *)
(* leaves the seat's keyboard focus on that surface, and every notification *)
(* of the transfer follows the button(pressed) sent to the surface; a       *)
(* release, and a press delivered to a node that is not a surface of a      *)
(* toplevel, never change the keyboard node and send nothing of a transfer. *)
FocusOnPress ==
    [][\A s \in Seats :
          (ButtonStep(s) /\ OpsOf(log', {"button"}) # <<>>)
          => LET n == ButtonTarget
             IN IF /\ last'.b = WL_PRESSED
                   /\ n \in Surfaces /\ BelongsToToplevel(n)
                THEN /\ keyboard_node'[s] = n
                     /\ Notified(log', "send_button", s, n)
                     /\ keyboard_node[s] # n => Notified(log', "focus", s, n)
                     /\ \A i, j \in DOMAIN log' :
                            (log'[i][1] = "send_button" /\ log'[j][1] \in FocusOps)
                            => i < j
                ELSE /\ keyboard_node' = keyboard_node
                     /\ kb_foci' = kb_foci
                     /\ OpsOf(log', FocusOps) = <<>>
      ]_vars

\* a press on B1 took the keyboard focus from A1, after the button was sent
FocusOnPressWitness ==
    \E s \in Seats :
        /\ last.op = "Button" /\ last.seat = s /\ last.b = WL_PRESSED
        /\ keyboard_node[s] = "B1"
        /\ Notified(log, "unfocus", s, "A1")
        /\ \E i, j \in DOMAIN log :
               /\ i < j
               /\ log[i] = <<"send_button", s, "B1", log[i][4], last.a, WL_PRESSED>>
               /\ log[j] = <<"focus", s, "B1", 0, 0, 0>>

(* Stale releases *)

(* C31: a Button release that arrives while the seat has no active grab,    *)
(* also after destroy_node of the grab's target cleared the grab while      *)
(* buttons were held, delivers no notification and changes no seat or       *)
(* ledger state.                                                            *)
StaleReleaseIgnored ==
    [][\A s \in Seats :
          (ButtonStep(s) /\ last'.b = WL_RELEASED /\ grabber[s] = NoGrab)
          => /\ log' = <<>>
             /\ SeatsAndLedgers' = SeatsAndLedgers
      ]_vars

\* the release of a button pressed on T1, after destroy_node(T1) ended the grab
StaleReleaseIgnoredWitness ==
    \E s \in Seats :
        /\ last.op = "Button" /\ last.seat = s /\ last.b = WL_RELEASED
        /\ "T1" \notin alive
        /\ grabber[s] = NoGrab
        /\ grabs["T1"] = {}
        /\ pos[s][1] = 512
        /\ pointer_stack[s] = <<Root>>
        /\ log = <<>>

(* Position resolution *)

(* C32: a Motion(dx, dy) event sets the seat's position to the old position *)
(* plus (dx, dy); an OutputPosition(o, x, y) event for a known output sets  *)
(* it to (x, y) plus the output's origin; both whether or not a grab is     *)
(* active, and no other seat's position changes.  An OutputPosition event   *)
(* that names an unknown output changes no state and delivers nothing.      *)
PositionResolution ==
    [][\A s \in Seats :
          /\ \A d \in MotionDeltas \cup FewMotionDeltas :
                 (last'.op = "Motion" /\ last'.seat = s
                  /\ MotionEvent(s, d[1], d[2]))
                 => pos' = [pos EXCEPT ![s] = <<pos[s][1] + d[1], pos[s][2] + d[2]>>]
          /\ \A o \in Outputs, x \in OutputXs, y \in OutputYs :
                 (last'.op = "OutputPosition" /\ last'.seat = s
                  /\ OutputPositionEvent(s, o, x, y))
                 => pos' = [pos EXCEPT ![s] = <<x + from_int(OutputX(o)),
                                                y + from_int(OutputY(o))>>]
          /\ (last'.op = "OutputPosition" /\ last'.seat = s
              /\ last'.node \notin Outputs)
                 => (log' = <<>> /\ SeatsAndLedgers' = SeatsAndLedgers)
      ]_vars

\* an OutputPosition on the known output during a grab of B1: the position is
\* (512, 64) plus the output's origin of one cell
PositionResolutionWitness ==
    \E s \in Seats :
        /\ last.op = "OutputPosition" /\ last.seat = s /\ last.node \in Outputs
        /\ grabber[s].node = "B1"
        /\ pos[s] = <<512 + from_int(1), 64>>
        /\ cursor_pos[s] = <<3, 0>>

-----------------------------------------------------------------------------
\* the positions of a history whose toplevel has a parent that does not float
TiledPositions(h) == {i \in DOMAIN h : ~parent_is_float(h[i])}

\* the entry at the greatest such position
MostRecentTiled(h) ==
    IF TiledPositions(h) = {} THEN None
    ELSE h[CHOOSE i \in TiledPositions(h) : \A j \in TiledPositions(h) : j <= i]

(* C33: Toplevel focus history.  Per seat the history holds each toplevel   *)
(* at most once; a focus_toplevel call puts its toplevel at the most-recent *)
(* end and keeps the order of the others; last_tiled_keyboard_toplevel      *)
(* returns the most recent entry whose parent is not floating, or none if   *)
(* every entry floats or the history is empty.                              *)
ToplevelFocusHistory ==
    /\ [](\A s \in Seats :
            LET h == toplevel_focus_history[s] IN
            /\ \A i, j \in DOMAIN h : h[i] = h[j] => i = j
            /\ last_tiled_keyboard_toplevel(St, s) = MostRecentTiled(h))
    /\ [][\A s \in Seats, tl \in Toplevels :
            (last'.op = "FocusToplevel" /\ last'.seat = s /\ last'.node = tl)
            => LET h == toplevel_focus_history[s]
                   g == toplevel_focus_history'[s] IN
               /\ Len(g) > 0
               /\ g[Len(g)] = tl
               /\ SubSeq(g, 1, Len(g) - 1) = SelectSeq(h, LAMBDA e : e # tl)
         ]_vars

\* the floating T2 was focused last, after the tiled T3 and the tiled T1
\* before it: the query skips T2 and answers T3
ToplevelFocusHistoryWitness ==
    /\ last.op = "FocusToplevel" /\ last.node = "T2"
    /\ toplevel_focus_history["s1"] = <<"T1", "T3", "T2">>
    /\ last_tiled_keyboard_toplevel(St, "s1") = "T3"

-----------------------------------------------------------------------------
(* Enter/leave alternation *)

\* the enter and leave notifications of a log that seat s delivered to node n
CrossingsOf(l, s, n) ==
    SelectSeq(l, LAMBDA e : e[1] \in {"enter", "leave"} /\ e[2] = s /\ e[3] = n)

\* The seat is in a live node's pointer_foci exactly when the last of these
\* notifications was an enter: lines 456-457 and 467-470 change the ledger
\* with each notification, and destroy_node(n) clears the ledger of n alone.
Opposite(op) == IF op = "enter" THEN "leave" ELSE "enter"

(* C34 as stated: for every seat and every node that is not destroyed, the  *)
(* enter and leave notifications the node receives for the seat strictly    *)
(* alternate starting with enter, over position updates, tree-changed       *)
(* reconciliations, grabs and destroy_node calls on other nodes.            *)
EnterLeaveAlternate ==
    [][\A s \in Seats, n \in Nodes :
          n \in alive'
          => LET q == CrossingsOf(log', s, n) IN
             \A i \in DOMAIN q :
                 q[i][1] = IF i > 1 THEN Opposite(q[i - 1][1])
                           ELSE IF s \in pointer_foci[n] THEN "leave"
                           ELSE "enter"
      ]_vars

\* T1 was destroyed under the pointer, the pointer went on to A2, and
\* destroy_node(B1) emptied the stack: the reconciliation that follows enters
\* the root, T2 and A2 again, none of which had received a leave
EnterLeaveEnteredTwice ==
    \E s \in Seats :
        /\ last.op = "TreeChanged" /\ last.seat = s
        /\ "T1" \notin alive /\ "B1" \notin alive
        /\ pointer_stack[s] = <<Root, "T2", "A2">>
        /\ NodeSeq(CrossingsOf(log, s, Root) \o CrossingsOf(log, s, "T2")
                   \o CrossingsOf(log, s, "A2")) = <<Root, "T2", "A2">>
        /\ \A i \in DOMAIN log : log[i][1] # "leave"

-----------------------------------------------------------------------------
(* Pressed-key tracking *)

\* the key notifications of a log that seat s delivered for the code
KeysOf(l, s, key) ==
    SelectSeq(l, LAMBDA e : e[1] = "key" /\ e[2] = s /\ e[4] = key)

(* C35: Pressed-key tracking.  The pressed-key set starts empty; a step      *)
(* delivers at most one key notification per seat and code, only in a Key   *)
(* event for that code; the notification is pressed when the code was not   *)
(* in the set and released when it was, and the code is in the set          *)
(* afterwards exactly when it was pressed; a step without a notification    *)
(* for a code (a focus transfer, a pointer event, an ignored key event)     *)
(* leaves the code's membership as it was.  So the set is the set of codes  *)
(* whose last accepted transition was a press and the notifications of a    *)
(* code alternate pressed, released, ... starting with pressed.             *)
PressedKeyTracking ==
    /\ \A s \in Seats : pressed_keys[s] = {}
    /\ [][\A s \in Seats, key \in Keys :
            LET q == KeysOf(log', s, key)
                was == key \in pressed_keys[s]
                is == key \in pressed_keys'[s]
            IN /\ Len(q) <= 1
               /\ Len(q) = 0 => (is <=> was)
               /\ Len(q) = 1
                  => /\ last'.op = "Key" /\ last'.seat = s /\ last'.a = key
                     /\ q[1][5] = last'.b
                     /\ q[1][5] = IF was THEN WL_RELEASED ELSE WL_PRESSED
                     /\ is <=> ~was
                     /\ q[1][3] = keyboard_node[s]
         ]_vars

\* key 30 released on B1, which took the keyboard focus by a button press
\* while the keys were held; 42 is still pressed
PressedKeyTrackingWitness ==
    \E s \in Seats :
        /\ last.op = "Key" /\ last.seat = s /\ last.a = 30 /\ last.b = WL_RELEASED
        /\ keyboard_node[s] = "B1"
        /\ pressed_keys[s] = {42}
        /\ KeysOf(log, s, 30) = << <<"key", s, "B1", 30, WL_RELEASED, NoMods>> >>

-----------------------------------------------------------------------------
(* Serial ordering *)

\* the notifications that carry a serial drawn from the seat's counter
SerialOps ==
    {"send_enter", "send_leave", "send_button", "send_key", "send_kb_enter",
     "send_modifiers"}

SerialsOf(l, s) == SelectSeq(l, LAMBDA e : e[1] \in SerialOps /\ e[2] = s)

(* C36: Serial ordering.  A seat's serial counter never decreases.  Every   *)
(* notification of a step that carries a serial of the seat carries one at  *)
(* least as large as the counter was before the step, less than the counter *)
(* after it, and greater than that of every such notification before it in  *)
(* the step: every serial sent is below the counter from then on, so each   *)
(* is strictly greater than all serials sent before and no two are equal.   *)
SerialOrdering ==
    /\ \A s \in Seats : serial[s] = 0
    /\ [][\A s \in Seats :
            LET q == SerialsOf(log', s) IN
            /\ serial'[s] >= serial[s]
            /\ \A i \in DOMAIN q :
                   /\ q[i][4] >= serial[s]
                   /\ q[i][4] < serial'[s]
                   /\ \A j \in DOMAIN q : j < i => q[j][4] < q[i][4]
         ]_vars

\* a press that moved the keyboard focus: the button, the keyboard enter and
\* the modifiers carry three consecutive serials, after earlier ones
SerialOrderingWitness ==
    \E s \in Seats :
        LET q == SerialsOf(log, s) IN
        /\ last.op = "Button" /\ last.seat = s
        /\ Len(q) = 3
        /\ q[1][1] = "send_button" /\ q[1][4] > 0
        /\ q[2][1] = "send_kb_enter" /\ q[2][4] = q[1][4] + 1
        /\ q[3][1] = "send_modifiers" /\ q[3][4] = q[2][4] + 1
        /\ serial[s] = q[3][4] + 1

-----------------------------------------------------------------------------
(* Node-local coordinates *)

\* the notifications that carry a position: to a node, and to its client
CoordinateOps == {"motion", "enter", "send_motion", "send_enter"}

\* the largest integer not above f / FixedOne, and what is left of f
FloorPart(f) == CHOOSE i \in -8..8 : i * FixedOne <= f /\ f < (i + 1) * FixedOne
FractPart(f) == f - FloorPart(f) * FixedOne

(* C37: Node-local coordinates.  The position delivered with motion (to the *)
(* grab target during a grab, to the leaf otherwise) and with enter is the  *)
(* seat's pointer position minus the receiving node's origin on each axis:  *)
(* its integer part is the pointer position rounded toward negative         *)
(* infinity minus the origin, and its fraction is the fraction of the       *)
(* pointer position, for negative and positive coordinates alike.           *)
NodeLocalCoordinates ==
    [][\A i \in DOMAIN log' :
          log'[i][1] \in CoordinateOps
          => LET s == log'[i][2]
                 n == log'[i][3]
                 x == pos'[s][1]
                 y == pos'[s][2]
             IN /\ FloorPart(log'[i][5]) = FloorPart(x) - OriginX(n)
                /\ FractPart(log'[i][5]) = FractPart(x)
                /\ FloorPart(log'[i][6]) = FloorPart(y) - OriginY(n)
                /\ FractPart(log'[i][6]) = FractPart(y)
                /\ log'[i][5] = x - from_int(OriginX(n))
                /\ log'[i][6] = y - from_int(OriginY(n))
      ]_vars

\* during a grab of B1, whose origin is one cell, the pointer is half a cell
\* left of zero: B1 is given the integer part -2 and the fraction one half
NodeLocalCoordinatesWitness ==
    \E s \in Seats :
        /\ grabber[s] # NoGrab /\ grabber[s].node = "B1"
        /\ pos[s] = <<-128, 64>>
        /\ log[1] = <<"motion", s, "B1", 0, -384, 64>>
        /\ FloorPart(-384) = -2 /\ FractPart(-384) = 128

-----------------------------------------------------------------------------
(* The coordinates of the position handler of mod.rs *)

(* C38 as stated: in handle_new_position of mod.rs the coordinates          *)
(* delivered to a toplevel in enter and motion are the hit-test-local       *)
(* integer coordinates (moved by the surface's effective extents) with the  *)
(* sub-pixel fraction of the pointer's x position on the x axis and the     *)
(* sub-pixel fraction of the pointer's y position on the y axis.            *)
ModAxisFractions ==
    [][\A i \in DOMAIN log' :
          (last'.op = "motion_event" /\ log'[i][1] \in {"send_enter", "send_motion"})
          => LET s == log'[i][2]
                 n == log'[i][3]
                 x == pos'[s][1]
                 y == pos'[s][2]
             IN \E r \in find_node_at(extents, FloorPart(x), FloorPart(y)) :
                    /\ r[1] = n
                    /\ log'[i][5] = from_int(r[2] + EffectiveX1(n)) + FractPart(x)
                    /\ log'[i][6] = from_int(r[3] + EffectiveY1(n)) + FractPart(y)
      ]_vars

\* the pointer at (1.5, 0) over T1: the y delivered is one half, the fraction of x
ModAxisFractionsCrossed ==
    \E s \in Seats :
        /\ last.op = "motion_event" /\ last.node = "T1"
        /\ pos[s] = <<384, 0>>
        /\ \E i \in DOMAIN log : log[i] = <<"send_motion", s, "T1", 0, 384, 128>>

====
